---- MODULE Spec2Model ----
(***************************************************************************)
(* A model of the air-quality analysis pages of Year_Analysis (Quant AQ,   *)
(* Gravimetric, AirQo): the AQI engine, the record cleaner and the upload  *)
(* loop of each page; of the heavy-metal page (upload loop, tabs and the   *)
(* Kruskal-Wallis test); and of the PM2.5 monitoring app (merging START    *)
(* and STOP records, saving the merged sheet).                             *)
(*                                                                         *)
(* Numbers.  A concentration, temperature or humidity is a float64 of the  *)
(* code.  A numeric cell keeps the exact value of its double's decimal     *)
(* origin as the fraction n / (d * Scale) in lowest terms, Scale being 100 *)
(* (a field of a file has two decimals and d = 1; a corrected reading and  *)
(* a group mean have more), together with src, the readings it was         *)
(* computed from.  Rounding and comparing are evaluated on the exact value *)
(* wherever that decides the result, and on the double itself where it     *)
(* does not: at a tie of round(), at a value that equals the limit it is   *)
(* compared with, and in the AQI of a value with d > 1.  There the double  *)
(* is computed as the code computes it, operation by operation in IEEE-754 *)
(* arithmetic (round to nearest, ties to even), the mean as the            *)
(* compensated sum of pandas divided by the count.  The slope of a band,   *)
(* (aqi_high - aqi_low) / (high - low), is reduced to lowest terms before  *)
(* it is applied to a value with d = 1, which leaves the exact value       *)
(* unchanged and keeps every intermediate product inside TLC's integers.   *)
(*                                                                         *)
(* Frames.  A DataFrame is [cols, rows]: cols the sequence of column       *)
(* names, rows a sequence of tuples of cells aligned with cols.  A cell is *)
(* a record whose field k names its kind.                                  *)
(***************************************************************************)
EXTENDS Integers, Sequences, FiniteSets, TLC

VARIABLES
    variant,        \* the page: "quant", "grav" or "airqo"
    pc,             \* position of the running handler
    pm,             \* AQI engine: the daily-average concentration (a cell)
    AQI,            \* AQI engine: daily_avg['AQI'] of the row
    AQI_Remark,     \* AQI engine: daily_avg['AQI_Remark'] of the row
    file,           \* cleaner: the uploaded file being processed
    raw,            \* cleaner: the frame handed to cleaned()
    df,             \* cleaner: what cleaned(raw) returned
    df2,            \* cleaner: what cleaned(df) returned
    uploaded_files, \* upload loop: the files of the uploader, in order
    idx,            \* upload loop: position of the file the loop is at
    dfs,            \* upload loop: the dict label -> cleaned frame
    warnings,       \* upload loop: labels given the 'missing columns' warning
    exception,      \* the exception that ended the script run
    upload,         \* file preparation: the frame as read from the file
    parsed,         \* file preparation: what parse_dates returned
    standardized,   \* file preparation: what standardize_columns returned
    lowered,        \* file preparation: the frame after the renaming in cleaned()
    selected_years, \* tabs: the years chosen in the sidebar
    site_in_tab,    \* tabs: the sites chosen in the tab
    selected_display_pollutants, \* tabs: the pollutants chosen for display
    filtered_df,    \* tabs: the rows of the chosen years and sites
    aggregates,     \* tabs: the tables of the Aggregated Means tab
    exceedance,     \* tabs: the table of the Exceedances tab
    daily_avg,      \* tabs: the daily table of the AQI Stats tab
    remarks_counts, \* tabs: the remark summary of the AQI Stats tab
    min_max,        \* tabs: the table of the Min/Max Values tab
    dataframes,     \* heavy metals: the list of cleaned frames
    file_names,     \* heavy metals: the list of file names
    widget_keys,    \* heavy metals: the widget keys registered in this run
    kw_args,        \* Kruskal-Wallis: the arguments of the call
    kruskal_df,     \* Kruskal-Wallis: what the call returned
    observations,   \* monitoring app: the rows of the 'Observations' sheet
    merged_df,      \* monitoring app: what merge_start_stop returned
    worksheets,     \* monitoring app: the worksheets of the spreadsheet
    sessions,       \* monitoring app: each session's position and locals
    write_log       \* monitoring app: the sessions in the order of their writes

vars ==
    << variant, pc, pm, AQI, AQI_Remark, file, raw, df, df2,
       uploaded_files, idx, dfs, warnings, exception,
       upload, parsed, standardized, lowered,
       selected_years, site_in_tab, selected_display_pollutants,
       filtered_df, aggregates, exceedance, daily_avg, remarks_counts, min_max,
       dataframes, file_names, widget_keys, kw_args, kruskal_df,
       observations, merged_df, worksheets, sessions, write_log >>

aqi_vars == <<pm, AQI, AQI_Remark>>
clean_vars == <<file, raw, df, df2>>
upload_vars == <<uploaded_files, idx, dfs, warnings, exception>>
prep_vars == <<upload, parsed, standardized, lowered>>
tab_inputs == <<selected_years, site_in_tab, selected_display_pollutants>>
tab_vars == <<filtered_df, aggregates, exceedance, daily_avg, remarks_counts, min_max>>
metal_vars == <<dataframes, file_names, widget_keys, kw_args, kruskal_df>>
app_vars == <<observations, merged_df, worksheets, sessions, write_log>>

\* the value of the variables a specification does not use
IdleAqi == pm = [k |-> "unset"] /\ AQI = [k |-> "unset"] /\ AQI_Remark = ""
IdleClean ==
    /\ file = [k |-> "unset"] /\ raw = [k |-> "unset"]
    /\ df = [k |-> "unset"] /\ df2 = [k |-> "unset"]
IdleUpload ==
    /\ uploaded_files = <<>> /\ idx = 0 /\ dfs = <<>>
    /\ warnings = <<>> /\ exception = ""
IdlePrep ==
    /\ upload = [k |-> "unset"] /\ parsed = [k |-> "unset"]
    /\ standardized = [k |-> "unset"] /\ lowered = [k |-> "unset"]
IdleTabs ==
    /\ selected_years = {} /\ site_in_tab = {}
    /\ selected_display_pollutants = <<"All">>
    /\ filtered_df = [k |-> "unset"]
    /\ aggregates = [k |-> "unset"] /\ exceedance = [k |-> "unset"]
    /\ daily_avg = [k |-> "unset"] /\ remarks_counts = [k |-> "unset"]
    /\ min_max = [k |-> "unset"]
IdleMetal ==
    /\ dataframes = <<>> /\ file_names = <<>> /\ widget_keys = <<>>
    /\ kw_args = [k |-> "unset"] /\ kruskal_df = [k |-> "unset"]
IdleApp ==
    /\ observations = <<>> /\ merged_df = [k |-> "unset"]
    /\ worksheets = {} /\ sessions = <<>> /\ write_log = <<>>

Variants == {"quant", "grav", "airqo"}

-----------------------------------------------------------------------------
(* Cells *)

Scale == 10 * 10

\* x tenths (x = 91 is 9.1) in fixed-point units
T(x) == x * (Scale \div 10)

\* a number of a file, a count or a rounded result: n units, computed from
\* no other cell
Num(n) == [k |-> "num", n |-> n, d |-> 1, src |-> <<>>]
NaN == [k |-> "nan"]
Unset == [k |-> "unset"]
Str(x) == [k |-> "str", s |-> x]
\* a timestamp as text in a file: fmt is "iso" (YYYY-MM-DD HH:MM:SS),
\* "dby" (%d-%b-%y) or "bad" (no date at all)
Text(fmt, y, m, d, h) == [k |-> "text", fmt |-> fmt, y |-> y, m |-> m, d |-> d, h |-> h]
\* a parsed timestamp (datetime64)
Ts(y, m, d, h) == [k |-> "ts", y |-> y, m |-> m, d |-> d, h |-> h]

IsNum(c) == c.k = "num"

Min(S) == CHOOSE x \in S : \A y \in S : x <= y

RECURSIVE GCD(_, _)
GCD(a, b) == IF b = 0 THEN a ELSE GCD(b, a % b)

\* a computed float: the value n / (d * Scale) in lowest terms, and src, the
\* readings it was computed from (a corrected value from one reading, a mean
\* from the readings of its group).  A reading is <<n>>, a parsed field, or
\* <<pm25, temp, rh>>, the fields of a corrected value.
Rat(n, d, src) ==
    [k |-> "num", n |-> n \div GCD(n, d), d |-> d \div GCD(n, d), src |-> src]

\* the denominator of a numeric cell
Den(c) == c.d

\* the value of a reading as a whole number of 1/Scale^2: a parsed field has
\* at most two decimals, a corrected value at most four
Units(c) == c.n * (Scale \div Den(c))

-----------------------------------------------------------------------------
(* float64 arithmetic.  A double is [s, m, e]: the value s * m * 2^e with s  *)
(* the sign (1 or -1) and m a natural number of exactly 53 bits, or m = 0.  *)
(* A natural number is the sequence of its digits in base 2^15, lowest      *)
(* first, without leading zeros; every operation is exact on these, and     *)
(* each float operation rounds the exact result to 53 bits, ties to even,   *)
(* as IEEE 754 does.  The values of the pages are far from overflow and     *)
(* from the subnormal range.  Carries are written in closed form rather     *)
(* than by recursion over the digits, which keeps the evaluation shallow.   *)

\* digit i of a, 0 beyond its length
Digit(a, i) == IF i \in 1..Len(a) THEN a[i] ELSE 0

\* a without leading zeros
BigTrim(a) ==
    SubSeq(a, 1, Cardinality({i \in 1..Len(a) : \E j \in i..Len(a) : a[j] # 0}))

\* a natural number below 2^31
BigOf(n) == BigTrim(<<n % 32768, (n \div 32768) % 32768, n \div 1073741824>>)

\* a number below 2^31
BigToInt(a) == Digit(a, 1) + 32768 * Digit(a, 2) + 1073741824 * Digit(a, 3)

\* the carry into digit i of a + b + c: some lower digit generates one and
\* every digit between passes it on
CarryInto(a, b, c, i) ==
    \/ c = 1 /\ \A k \in 1..(i - 1) : Digit(a, k) + Digit(b, k) = 32767
    \/ \E j \in 1..(i - 1) :
          /\ Digit(a, j) + Digit(b, j) >= 32768
          /\ \A k \in (j + 1)..(i - 1) : Digit(a, k) + Digit(b, k) = 32767

\* a + b + c for c in {0, 1}
BigAddC(a, b, c) ==
    BigTrim([i \in 1..((IF Len(a) > Len(b) THEN Len(a) ELSE Len(b)) + 1) |->
                (Digit(a, i) + Digit(b, i)
                    + (IF CarryInto(a, b, c, i) THEN 1 ELSE 0)) % 32768])

BigAdd(a, b) == BigAddC(a, b, 0)

\* the borrow from digit i of a - b: some lower digit of a is the smaller
\* and every digit between is equal
BorrowFrom(a, b, i) ==
    \E j \in 1..(i - 1) :
        /\ Digit(a, j) < Digit(b, j)
        /\ \A k \in (j + 1)..(i - 1) : Digit(a, k) = Digit(b, k)

\* a - b for a >= b
BigSub(a, b) ==
    BigTrim([i \in 1..Len(a) |->
                (a[i] - Digit(b, i) - (IF BorrowFrom(a, b, i) THEN 1 ELSE 0) + 32768) % 32768])

BigLess(a, b) ==
    \E i \in 1..Len(b) :
        /\ Digit(a, i) < b[i]
        /\ \A j \in (i + 1)..(IF Len(a) > Len(b) THEN Len(a) ELSE Len(b)) :
              Digit(a, j) = Digit(b, j)

\* -1, 0 or 1 as a < b, a = b, a > b
BigCmp(a, b) == IF a = b THEN 0 ELSE IF BigLess(a, b) THEN -1 ELSE 1

\* a * k for a digit k: the low and the high halves of the digit products
BigMulSmall(a, k) ==
    BigAdd([i \in 1..Len(a) |-> (a[i] * k) % 32768],
           <<0>> \o [i \in 1..Len(a) |-> (a[i] * k) \div 32768])

\* column c of a * b for a and b of four digits: the low halves of the
\* products of its diagonal and the high halves of those of the one before
Column(a, b, c) ==
      ((Digit(a, 1) * Digit(b, c)) % 32768) + ((Digit(a, 2) * Digit(b, c - 1)) % 32768)
    + ((Digit(a, 3) * Digit(b, c - 2)) % 32768) + ((Digit(a, 4) * Digit(b, c - 3)) % 32768)
    + ((Digit(a, 1) * Digit(b, c - 1)) \div 32768) + ((Digit(a, 2) * Digit(b, c - 2)) \div 32768)
    + ((Digit(a, 3) * Digit(b, c - 3)) \div 32768) + ((Digit(a, 4) * Digit(b, c - 4)) \div 32768)

\* a * b for a and b of at most four digits
BigMul(a, b) ==
    BigAdd([c \in 1..8 |-> Column(a, b, c) % 32768],
           <<0>> \o [c \in 1..8 |-> Column(a, b, c) \div 32768])

\* a * 2^k
BigShl(a, k) ==
    BigTrim([i \in 1..(Len(a) + (k \div 15) + 1) |->
                ((Digit(a, i - (k \div 15)) * (2 ^ (k % 15))) % 32768)
                    + ((Digit(a, i - (k \div 15) - 1) * (2 ^ (k % 15))) \div 32768)])

\* a \div 2^k
BigShr(a, k) ==
    BigTrim([i \in 1..Len(a) |->
                (Digit(a, i + (k \div 15)) \div (2 ^ (k % 15)))
                    + ((Digit(a, i + (k \div 15) + 1) % (2 ^ (k % 15))) * (2 ^ (15 - (k % 15))))])

\* the number of bits of a digit
Bits(x) == CHOOSE k \in 0..15 : x < 2 ^ k /\ (k = 0 \/ x >= 2 ^ (k - 1))

\* the number of bits of a
BigBits(a) == IF a = <<>> THEN 0 ELSE 15 * (Len(a) - 1) + Bits(a[Len(a)])

BigOdd(a) == a # <<>> /\ a[1] % 2 = 1

\* g * b <= r
FitsIn(b, g, r) == BigCmp(BigMulSmall(b, g), r) <= 0

\* the digit r \div b, for b of four digits the highest of which is at
\* least 2^14, and r < b * 2^15.  The quotient g of the two highest digits
\* of r by the highest of b is never too small and at most 2 too large
\* (Knuth, The Art of Computer Programming, 4.3.1, Theorem B).
DigitFrom(r, b, g) ==
    IF FitsIn(b, g, r) THEN g ELSE IF FitsIn(b, g - 1, r) THEN g - 1 ELSE g - 2

DigitOf(r, b) ==
    DigitFrom(r, b, IF (Digit(r, 5) * 32768 + Digit(r, 4)) \div b[4] > 32767
                    THEN 32767
                    ELSE (Digit(r, 5) * 32768 + Digit(r, 4)) \div b[4])

DivPut(d, r, b, g) ==
    [q |-> BigTrim(<<g>> \o d.q), r |-> BigSub(r, BigMulSmall(b, g))]

DivRest(d, r, b) == DivPut(d, r, b, DigitOf(r, b))

\* one more digit of a long division by b: d is the quotient and the rest so
\* far, x the next digit of the dividend
DivLimb(d, x, b) ==
    IF d.r = <<>> /\ x = 0 THEN [q |-> BigTrim(<<0>> \o d.q), r |-> <<>>]
    ELSE DivRest(d, BigTrim(<<x>> \o d.r), b)

\* k more digits, the dividend having only zeros left
RECURSIVE DivZeros(_, _, _)
DivZeros(d, b, k) == IF k = 0 THEN d ELSE DivLimb(DivZeros(d, b, k - 1), 0, b)

\* (a * 2^60) \div b and the rest, for a and b of exactly 60 bits
BigDivMod(a, b) ==
    DivZeros(DivLimb([q |-> <<>>, r |-> SubSeq(a, 2, 4)], a[1], b), b, 4)

FZero == [s |-> 1, m |-> <<>>, e |-> 0]

\* bit k (counted from 0) of a
BitAt(a, k) == (Digit(a, (k \div 15) + 1) \div (2 ^ (k % 15))) % 2

\* some bit of a below bit k is set
AnyBelow(a, k) ==
    \E i \in 1..Len(a) :
        \/ 15 * i <= k /\ a[i] # 0
        \/ 15 * (i - 1) < k /\ k < 15 * i /\ a[i] % (2 ^ (k - 15 * (i - 1))) # 0

\* round to nearest, ties to even: the k bits cut off from n lie above the
\* half, or on it with the bit kept above them set or with more behind them
\* (sticky)
RoundsUp(n, k, sticky) ==
    BitAt(n, k - 1) = 1 /\ (sticky \/ AnyBelow(n, k - 1) \/ BitAt(n, k) = 1)

\* a mantissa of 54 bits after rounding up is 2^53
Renorm(s, m, e) ==
    IF BigBits(m) > 53 THEN [s |-> s, m |-> BigShr(m, 1), e |-> e + 1]
    ELSE [s |-> s, m |-> m, e |-> e]

\* n with its lowest k bits cut off and rounded
RoundCut(s, n, e, sticky, k) ==
    IF RoundsUp(n, k, sticky) THEN Renorm(s, BigAddC(BigShr(n, k), <<>>, 1), e + k)
    ELSE [s |-> s, m |-> BigShr(n, k), e |-> e + k]

\* the double nearest to s * n * 2^e (+ a little more when sticky)
Round53(s, n, e, sticky) ==
    IF n = <<>> THEN FZero
    ELSE IF BigBits(n) <= 53
    THEN [s |-> s, m |-> BigShl(n, 53 - BigBits(n)), e |-> e - (53 - BigBits(n))]
    ELSE RoundCut(s, n, e, sticky, BigBits(n) - 53)

FromInt(n) == Round53(IF n < 0 THEN -1 ELSE 1, BigOf(IF n < 0 THEN -n ELSE n), 0, FALSE)

FNeg(a) == IF a.m = <<>> THEN a ELSE [a EXCEPT !.s = -a.s]

\* x + y or |x - y| for the mantissas x and y at the exponent e
FAddOf(a, b, e, x, y) ==
    IF a.s = b.s THEN Round53(a.s, BigAdd(x, y), e, FALSE)
    ELSE IF BigCmp(x, y) >= 0 THEN Round53(a.s, BigSub(x, y), e, FALSE)
    ELSE Round53(b.s, BigSub(y, x), e, FALSE)

\* a + b with both mantissas brought to the exponent e
FAddAt(a, b, e) == FAddOf(a, b, e, BigShl(a.m, a.e - e), BigShl(b.m, b.e - e))

FAdd(a, b) ==
    IF a.m = <<>> THEN b
    ELSE IF b.m = <<>> THEN a
    ELSE FAddAt(a, b, IF a.e < b.e THEN a.e ELSE b.e)

FSub(a, b) == FAdd(a, FNeg(b))

FMul(a, b) ==
    IF a.m = <<>> \/ b.m = <<>> THEN FZero
    ELSE Round53(a.s * b.s, BigMul(a.m, b.m), a.e + b.e, FALSE)

\* a / b for b # 0: 60 or 61 bits of the quotient of the mantissas, the rest
\* being sticky
FDivOf(a, b, d) == Round53(a.s * b.s, d.q, a.e - b.e - 60, d.r # <<>>)

FDiv(a, b) ==
    IF b.m # <<>> /\ a.m = <<>> THEN FZero
    ELSE FDivOf(a, b, BigDivMod(BigShl(a.m, 7), BigShl(b.m, 7)))

\* the digits of a above digit i, modulo k
RECURSIVE RestAbove(_, _, _)
RestAbove(a, i, k) ==
    IF i >= Len(a) THEN 0 ELSE (RestAbove(a, i + 1, k) * 32768 + a[i + 1]) % k

\* a \div k and the rest, for a digit k # 0
BigDivSmall(a, k) ==
    [q |-> BigTrim([i \in 1..Len(a) |-> (RestAbove(a, i, k) * 32768 + a[i]) \div k]),
     r |-> RestAbove(a, 0, k)]

FDivIntOf(a, d) == Round53(a.s, d.q, a.e - 30, d.r # 0)

\* a / k for a natural number k, 0 < k < 2^15: k is a double, and the
\* quotient of a.m * 2^30 by it has 68 bits or more, the rest being sticky
FDivInt(a, k) ==
    IF a.m = <<>> THEN FZero ELSE FDivIntOf(a, BigDivSmall(<<0, 0>> \o a.m, k))

\* -1, 0 or 1 as a < b, a = b, a > b
FCmp(a, b) == IF FSub(a, b).m = <<>> THEN 0 ELSE FSub(a, b).s

\* the integer nearest to a, ties to even (round(), np.rint)
FRint(a) ==
    IF a.m = <<>> THEN 0
    ELSE IF a.e >= 0 THEN a.s * BigToInt(BigShl(a.m, a.e))
    ELSE IF RoundsUp(a.m, -a.e, FALSE)
    THEN a.s * BigToInt(BigAddC(BigShr(a.m, -a.e), <<>>, 1))
    ELSE a.s * BigToInt(BigShr(a.m, -a.e))

\* the double of a decimal literal or of a parsed field: n / Scale, rounded
FDec(n) == FDivInt(FromInt(n), Scale)

\* 0.94 * pm25 - 0.34 * temp - 0.08 * rh + 19.82 on the doubles of a row
fl_corrected(p, t, r) ==
    FAdd(FSub(FSub(FMul(FDec(94), FDec(p)), FMul(FDec(34), FDec(t))),
              FMul(FDec(8), FDec(r))),
         FDec(1982))

\* the double of one reading: <<pm25, temp, rh>> of a corrected value,
\* <<n>> of a parsed one
fl_value(e) == IF Len(e) = 3 THEN fl_corrected(e[1], e[2], e[3]) ELSE FDec(e[1])

\* the group mean of pandas: a compensated sum, k = [sumx, compensation],
\*     y = val - compensation; t = sumx + y
\*     compensation = t - sumx - y; sumx = t
\* and out = sumx / count
KahanOut(k, y, t) == [sumx |-> t, compensation |-> FSub(FSub(t, k.sumx), y)]
KahanPut(k, y) == KahanOut(k, y, FAdd(k.sumx, y))
KahanStep(k, val) == KahanPut(k, FSub(val, k.compensation))

\* the readings lo..hi of src added to k in order: the first half, then the
\* second half added to the result of the first
RECURSIVE KahanSum(_, _, _, _)
KahanSum(k, src, lo, hi) ==
    IF lo > hi THEN k
    ELSE IF lo = hi THEN KahanStep(k, fl_value(src[lo]))
    ELSE CHOOSE out \in {KahanSum(half, src, (lo + hi) \div 2 + 1, hi) :
                             half \in {KahanSum(k, src, lo, (lo + hi) \div 2)}} : TRUE

fl_mean(src) ==
    FDivInt(KahanSum([sumx |-> FZero, compensation |-> FZero], src, 1, Len(src)).sumx,
            Len(src))

\* the double a numeric cell holds: that of the parsed text for a field of
\* the file, else the double the code computes from the readings, the mean
\* of a group or the corrected value of one reading (the mean of one double
\* is that double)
fl(c) == IF c.src # <<>> THEN fl_mean(c.src) ELSE FDec(c.n)

\* -1, 0 or 1 as the double of cell c is below, equal to or above the double
\* of the decimal n / Scale.  Doubles of different exact values compare as
\* the values do; only a computed double whose exact value equals n can lie
\* on either side.
fl_cmp(c, n) ==
    IF c.n < n * Den(c) THEN -1
    ELSE IF c.n > n * Den(c) THEN 1
    ELSE IF c.src # <<>> THEN FCmp(fl(c), FDec(n))
    ELSE 0

\* num / den (den > 0) lies exactly half way between two integers
is_tie(num, den) == 2 * (num % den) = den

\* np.round(x, 1) is rint(x * 10) / 10: the tenths of the result
rint_tenths(x) == FRint(FMul(x, FromInt(10)))

-----------------------------------------------------------------------------
(* AQI engine: calculate_aqi_and_category, the per-row part *)

\* the breakpoint table of each page: (low, high, aqi_low, aqi_high)
breakpoints_quant ==
    << <<T(0), T(90), 0, 50>>,
       <<T(91), T(354), 51, 100>>,
       <<T(355), T(554), 101, 150>>,
       <<T(555), T(1254), 151, 200>>,
       <<T(1255), T(2254), 201, 300>>,
       <<T(2255), T(3254), 301, 500>>,
       <<T(3255), T(999999), 501, 999>> >>

breakpoints_grav ==
    << <<T(0), T(90), 0, 50>>,
       <<T(91), T(354), 51, 100>>,
       <<T(355), T(554), 101, 150>>,
       <<T(555), T(1254), 151, 200>>,
       <<T(1255), T(2254), 201, 300>>,
       <<T(2255), T(3254), 301, 500>>,
       <<T(3255), T(999999), 501, 999>> >>

breakpoints_airqo ==
    << <<T(0), T(90), 0, 50>>,
       <<T(91), T(354), 51, 100>>,
       <<T(355), T(554), 101, 150>>,
       <<T(555), T(1254), 151, 200>>,
       <<T(1255), T(2254), 201, 300>>,
       <<T(2255), T(3254), 301, 500>>,
       <<T(3255), T(999999), 501, 999>> >>

breakpoints(v) ==
    CASE v = "quant" -> breakpoints_quant
      [] v = "grav"  -> breakpoints_grav
      [] v = "airqo" -> breakpoints_airqo

\* mutant: half-open bands [low, high)
in_band_half_open(b, c) == c.k = "num" /\ fl_cmp(c, b[1]) >= 0 /\ fl_cmp(c, b[2]) < 0

\* low <= pm <= high; every comparison with NaN is False
in_band(b, c) == c.k = "num" /\ fl_cmp(c, b[1]) >= 0 /\ fl_cmp(c, b[2]) <= 0

\* mutant: int() truncation in place of round()
round_trunc(num, den) == num \div den

\* Python round(num / den) for den > 0: nearest integer, ties to the even one
round(num, den) ==
    LET q == num \div den
        r == num % den
    IN  IF 2 * r < den THEN q
        ELSE IF 2 * r > den THEN q + 1
        ELSE IF q % 2 = 0 THEN q ELSE q + 1

\* mutant: the offset aqi_low of the band is not added
calculate_aqi_no_offset(v, c) ==
    LET bp == breakpoints(v)
        hit == {i \in 1..Len(bp) : in_band(bp[i], c)}
    IN  IF hit = {} THEN NaN
        ELSE LET b == bp[Min(hit)]
                 g == GCD(b[4] - b[3], b[2] - b[1])
                 mul == (b[4] - b[3]) \div g
                 den == (b[2] - b[1]) \div g
             IN  Num(round((c.n - b[1]) * mul, den))

\* mutant: a concentration outside every band gets index 0
calculate_aqi_zero_default(v, c) ==
    LET bp == breakpoints(v)
        hit == {i \in 1..Len(bp) : in_band(bp[i], c)}
    IN  IF hit = {} THEN Num(0)
        ELSE LET b == bp[Min(hit)]
                 g == GCD(b[4] - b[3], b[2] - b[1])
                 mul == (b[4] - b[3]) \div g
                 den == (b[2] - b[1]) \div g
             IN  Num(round((c.n - b[1]) * mul + b[3] * den, den))

\* mutant: the band is walked from aqi_high downwards
calculate_aqi_from_high(v, c) ==
    LET bp == breakpoints(v)
        hit == {i \in 1..Len(bp) : in_band(bp[i], c)}
    IN  IF hit = {} THEN NaN
        ELSE LET b == bp[Min(hit)]
                 g == GCD(b[4] - b[3], b[2] - b[1])
                 mul == (b[4] - b[3]) \div g
                 den == (b[2] - b[1]) \div g
             IN  Num(round(b[4] * den - (c.n - b[1]) * mul, den))

\* round(((pm - low) * (aqi_high - aqi_low) / (high - low)) + aqi_low) on
\* doubles, for the band b and the double x of pm
aqi_float(b, x) ==
    FRint(FAdd(FDiv(FMul(FSub(x, FDec(b[1])), FromInt(b[4] - b[3])),
                    FSub(FDec(b[2]), FDec(b[1]))),
               FromInt(b[3])))

\* return round(...): the rounding of the exact value num / den of a pm with
\* two decimals unless that value is a tie; at a tie, and for any other pm,
\* the float evaluation
aqi_rounded(b, c, num, den) ==
    Num(IF Den(c) > 1 \/ is_tie(num, den) THEN aqi_float(b, fl(c)) ELSE round(num, den))

\* the interpolated value of band b; num / den is its exact value for a pm
\* with two decimals, with the slope in lowest terms (g the common divisor of
\* its two differences)
aqi_in_band(b, c, g) ==
    aqi_rounded(b, c,
                (c.n - b[1]) * ((b[4] - b[3]) \div g) + b[3] * ((b[2] - b[1]) \div g),
                (b[2] - b[1]) \div g)

\* the bands of the table that hold pm
bands_holding(bp, c) == {i \in 1..Len(bp) : in_band(bp[i], c)}

\* for low, high, aqi_low, aqi_high in breakpoints: the first band, in table
\* order, that holds pm decides
first_band(bp, hit, c) ==
    IF hit = {} THEN NaN
    ELSE aqi_in_band(bp[Min(hit)], c,
                     GCD(bp[Min(hit)][4] - bp[Min(hit)][3], bp[Min(hit)][2] - bp[Min(hit)][1]))

\* calculate_aqi(pm) of page v; no band gives np.nan
calculate_aqi(v, c) == first_band(breakpoints(v), bands_holding(breakpoints(v), c), c)

Gt(c, n) == c.k = "num" /\ c.n > n
Ge(c, n) == c.k = "num" /\ c.n >= n

\* mutant: every threshold test inclusive
conditions_inclusive(a) ==
    << Ge(a, 300), Ge(a, 200), Ge(a, 150), Ge(a, 100), Ge(a, 50), Ge(a, 0) >>

conditions(a) ==
    << Gt(a, 300), Gt(a, 200), Gt(a, 150), Gt(a, 100), Gt(a, 50), Ge(a, 0) >>

remarks ==
    << "Hazardous", "Very Unhealthy", "Unhealthy",
       "Unhealthy for Sensitive Groups", "Moderate", "Good" >>

\* mutant: the last condition that is true decides
np_select_last(conds, choices, default) ==
    LET hit == {i \in DOMAIN conds : conds[i]}
    IN  IF hit = {} THEN default ELSE choices[CHOOSE i \in hit : \A j \in hit : j <= i]

\* np.select: the choice of the first condition that is true, else the default
np_select(conds, choices, default) ==
    LET hit == {i \in DOMAIN conds : conds[i]}
    IN  IF hit = {} THEN default ELSE choices[Min(hit)]

-----------------------------------------------------------------------------
(* Inputs of the AQI engine *)

MaxTenths == 3300
MinTenths == 10
MaxHundredths == 1000

\* the midpoints of the gaps between adjacent bands (9.05, 35.45, ...)
GapPoints ==
    { T(90) + T(1) \div 2, T(354) + T(1) \div 2, T(554) + T(1) \div 2,
      T(1254) + T(1) \div 2, T(2254) + T(1) \div 2, T(3254) + T(1) \div 2 }

TopPoints ==
    { T(999998), T(999999), T(999999) + 1, T(1000000), T(2000000) }

\* concentrations with two decimals (2.07, 9.03, ...): among them those whose
\* exact index lies half way between two integers
FinePoints == 0..MaxHundredths

AqiInputs ==
    {T(t) : t \in (0 - MinTenths)..MaxTenths} \cup FinePoints \cup GapPoints \cup TopPoints

InitAqi ==
    /\ variant \in Variants
    /\ pc = "aqi"
    /\ pm \in {Num(c) : c \in AqiInputs}
    /\ AQI = Unset
    /\ AQI_Remark = ""
    /\ IdleClean /\ IdleUpload /\ IdlePrep /\ IdleTabs /\ IdleMetal /\ IdleApp

\* daily_avg['AQI'] = ...apply(calculate_aqi); daily_avg['AQI_Remark'] = np.select(...)
CalculateAqiAndCategory ==
    /\ pc = "aqi"
    /\ AQI' = calculate_aqi(variant, pm)
    /\ AQI_Remark' = np_select(conditions(AQI'), remarks, "Unknown")
    /\ pc' = "aqi_done"
    /\ UNCHANGED <<variant, pm, clean_vars, upload_vars,
                   prep_vars, tab_inputs, metal_vars, app_vars, tab_vars>>

NextAqi == CalculateAqiAndCategory

SpecAqi == InitAqi /\ [][NextAqi]_vars

-----------------------------------------------------------------------------
(* Claims about the AQI engine, checked under SpecAqi *)

\* C1: in every variant AQI(0.0) = 0 with remark 'Good', AQI(9.0) = 50,
\* AQI(35.4) = 100 and AQI(125.4) = 200.
C1_ReferencePoints ==
    pc = "aqi_done" =>
        /\ pm = Num(T(0)) => (AQI = Num(0) /\ AQI_Remark = "Good")
        /\ pm = Num(T(90)) => AQI = Num(50)
        /\ pm = Num(T(354)) => AQI = Num(100)
        /\ pm = Num(T(1254)) => AQI = Num(200)

C1_Witness ==
    pc = "aqi_done" /\ variant = "airqo" /\ pm = Num(T(1254)) /\ AQI = Num(200)

C2_Gaps ==
    { <<T(90), T(91)>>, <<T(354), T(355)>>, <<T(554), T(555)>>,
      <<T(1254), T(1255)>>, <<T(2254), T(2255)>>, <<T(3254), T(3255)>> }

C2_OutOfBand(n) ==
    \/ n < 0
    \/ n > T(999999)
    \/ \E g \in C2_Gaps : g[1] < n /\ n < g[2]

\* C2: a concentration that lies in no band (negative, strictly between two
\* adjacent bands, above 99999.9) gets the NaN indicator and the remark
\* 'Unknown'; the computation has no failing outcome.
C2_OutOfBandIsUnknown ==
    (pc = "aqi_done" /\ C2_OutOfBand(pm.n)) =>
        (AQI = NaN /\ AQI_Remark = "Unknown")

C2_Witness ==
    pc = "aqi_done" /\ variant = "quant" /\ pm = Num(T(90) + T(1) \div 2)
        /\ AQI = NaN /\ AQI_Remark = "Unknown"

\* C3: at most one band satisfies low <= pm <= high, each band holds its own
\* two limits, and 9.0 gives 50, 9.1 gives 51, 35.4 gives 100, 35.5 gives 101.
C3_BandChoiceDeterministic ==
    LET bp == breakpoints(variant)
    IN  /\ Cardinality({i \in 1..Len(bp) : in_band(bp[i], pm)}) <= 1
        /\ \A i \in 1..Len(bp) :
              in_band(bp[i], Num(bp[i][1])) /\ in_band(bp[i], Num(bp[i][2]))
        /\ pc = "aqi_done" =>
              /\ pm = Num(T(90)) => AQI = Num(50)
              /\ pm = Num(T(91)) => AQI = Num(51)
              /\ pm = Num(T(354)) => AQI = Num(100)
              /\ pm = Num(T(355)) => AQI = Num(101)

C3_Witness ==
    pc = "aqi_done" /\ variant = "grav" /\ pm = Num(T(91)) /\ AQI = Num(51)

C4_Abs(x) == IF x < 0 THEN 0 - x ELSE x

\* C4: for a concentration C inside a band the result is an integer nearest
\* to (C - C_low) * (I_high - I_low) / (C_high - C_low) + I_low, and it lies
\* between I_low and I_high inclusive.
C4_InterpolationInRange ==
    pc = "aqi_done" =>
        \A i \in 1..Len(breakpoints(variant)) :
            LET b == breakpoints(variant)[i]
                g == GCD(b[4] - b[3], b[2] - b[1])
                mul == (b[4] - b[3]) \div g
                den == (b[2] - b[1]) \div g
            IN  (b[1] <= pm.n /\ pm.n <= b[2]) =>
                    /\ IsNum(AQI)
                    /\ b[3] <= AQI.n /\ AQI.n <= b[4]
                    /\ LET d == (pm.n - b[1]) * mul - (AQI.n - b[3]) * den
                       IN  2 * C4_Abs(d) <= den

C4_Witness ==
    pc = "aqi_done" /\ variant = "airqo" /\ pm = Num(T(123)) /\ AQI = Num(57)

C5_RemarkOf(a) ==
    IF a.k # "num" THEN "Unknown"
    ELSE CASE a.n >= 301 -> "Hazardous"
           [] a.n \in 201..300 -> "Very Unhealthy"
           [] a.n \in 151..200 -> "Unhealthy"
           [] a.n \in 101..150 -> "Unhealthy for Sensitive Groups"
           [] a.n \in 51..100 -> "Moderate"
           [] a.n \in 0..50 -> "Good"
           [] OTHER -> "Unknown"

\* C5: the remark is decided by the first matching test in descending order
\* (> 300, > 200, > 150, > 100, > 50, >= 0) and is 'Unknown' for every other
\* value including NaN; every daily row gets exactly one of the seven remarks.
C5_RemarkTotal ==
    pc = "aqi_done" =>
        /\ AQI_Remark = C5_RemarkOf(AQI)
        /\ AQI_Remark \in {remarks[i] : i \in DOMAIN remarks} \cup {"Unknown"}

C5_Witness ==
    pc = "aqi_done" /\ variant = "grav" /\ AQI = Num(150)
        /\ AQI_Remark = "Unhealthy for Sensitive Groups"

\* the band of the page's table that holds the concentration n, 0 if none
C27_BandOf(n) ==
    LET hit == {i \in 1..Len(breakpoints(variant)) :
                   breakpoints(variant)[i][1] <= n /\ n <= breakpoints(variant)[i][2]}
    IN  IF hit = {} THEN 0 ELSE Min(hit)

\* the concentrations compared with pm: those up to 1.0 below it, and the
\* limits of every band
C27_Below ==
    {a \in AqiInputs : a <= pm.n /\ pm.n - a <= T(10)}
      \cup {breakpoints(variant)[i][j] : i \in 1..Len(breakpoints(variant)), j \in 1..2}

\* C27: calculate_aqi is monotone: for concentrations a <= b that both lie
\* inside bands AQI(a) <= AQI(b), and the largest AQI of a band is smaller
\* than the smallest AQI of the next band.
C27_Monotone ==
    pc = "aqi_done" =>
        /\ C27_BandOf(pm.n) # 0 =>
              \A a \in C27_Below :
                  /\ (a <= pm.n /\ C27_BandOf(a) # 0) =>
                        calculate_aqi(variant, Num(a)).n <= AQI.n
                  /\ (a >= pm.n /\ C27_BandOf(a) # 0) =>
                        calculate_aqi(variant, Num(a)).n >= AQI.n
                  /\ (C27_BandOf(a) # 0 /\ C27_BandOf(a) < C27_BandOf(pm.n)) =>
                        calculate_aqi(variant, Num(a)).n < AQI.n
        /\ \A i \in 1..(Len(breakpoints(variant)) - 1) :
              calculate_aqi(variant, Num(breakpoints(variant)[i][2])).n
                  < calculate_aqi(variant, Num(breakpoints(variant)[i + 1][1])).n

\* 35.5, the first concentration of the third band: 101, above the 100 of 35.4
C27_Witness ==
    /\ pc = "aqi_done" /\ variant = "quant" /\ pm = Num(T(355)) /\ AQI = Num(101)
    /\ T(354) \in C27_Below
    /\ calculate_aqi(variant, Num(T(354))) = Num(100)

\* the remark the claim gives to band i of the table
C28_BandRemark(i) ==
    CASE i = 1 -> "Good"
      [] i = 2 -> "Moderate"
      [] i = 3 -> "Unhealthy for Sensitive Groups"
      [] i = 4 -> "Unhealthy"
      [] i = 5 -> "Very Unhealthy"
      [] i \in {6, 7} -> "Hazardous"

\* C28: the remark is that of the band which holds the concentration: band 1
\* 'Good', 2 'Moderate', 3 'Unhealthy for Sensitive Groups', 4 'Unhealthy',
\* 5 'Very Unhealthy', 6 and 7 'Hazardous'; rounding moves no value into the
\* remark of a neighbouring band.
C28_RemarkOfBand ==
    pc = "aqi_done" =>
        \A i \in 1..Len(breakpoints(variant)) :
            (breakpoints(variant)[i][1] <= pm.n /\ pm.n <= breakpoints(variant)[i][2]) =>
                AQI_Remark = C28_BandRemark(i)

\* 125.4, the upper limit of the fourth band: 200, still 'Unhealthy'
C28_Witness ==
    /\ pc = "aqi_done" /\ variant = "grav" /\ pm = Num(T(1254))
    /\ AQI = Num(200) /\ AQI_Remark = "Unhealthy"

-----------------------------------------------------------------------------
(* Frames *)

Frame(cols, rows) == [ok |-> TRUE, cols |-> cols, rows |-> rows]

\* a call that ended in an exception instead of returning a frame
Raise(e) == [ok |-> FALSE, err |-> e]

isna(c) == c.k = "nan"

SeqMap(F(_), s) == [i \in 1..Len(s) |-> F(s[i])]

RECURSIVE SortedSeq(_)
SortedSeq(S) == IF S = {} THEN <<>> ELSE <<Min(S)>> \o SortedSeq(S \ {Min(S)})

Positions(cols, name) == {i \in 1..Len(cols) : cols[i] = name}

\* name in df.columns
has_col(f, name) == Positions(f.cols, name) # {}

col_idx(f, name) == Min(Positions(f.cols, name))

\* row[name]
at(f, r, name) == r[col_idx(f, name)]

\* the frame made of the columns at the given positions, in that order
take(f, idxs) ==
    Frame([j \in 1..Len(idxs) |-> f.cols[idxs[j]]],
          SeqMap(LAMBDA r : [j \in 1..Len(idxs) |-> r[idxs[j]]], f.rows))

\* df[[col for col in names if col in df.columns]]
RECURSIVE present_positions(_, _)
present_positions(cols, names) ==
    IF names = <<>> THEN <<>>
    ELSE SortedSeq(Positions(cols, Head(names)))
            \o present_positions(cols, Tail(names))

\* df[name] = F(row): in place when the column exists, appended otherwise
set_col(f, name, F(_)) ==
    IF has_col(f, name)
    THEN Frame(f.cols, SeqMap(LAMBDA r : [r EXCEPT ![col_idx(f, name)] = F(r)], f.rows))
    ELSE Frame(Append(f.cols, name), SeqMap(LAMBDA r : Append(r, F(r)), f.rows))

\* df.dropna(axis=1, how='all'): a column stays when some row holds a value
\* in it; a frame without rows loses every column
dropna_all_cols(f) ==
    take(f, SortedSeq({i \in 1..Len(f.cols) :
                          \E j \in 1..Len(f.rows) : ~isna(f.rows[j][i])}))

\* df.dropna(): the rows without a missing value
dropna_rows(f) ==
    Frame(f.cols, SelectSeq(f.rows, LAMBDA r : \A i \in 1..Len(r) : ~isna(r[i])))

\* df.dropna(subset=[name])
dropna_subset(f, name) ==
    Frame(f.cols, SelectSeq(f.rows, LAMBDA r : ~isna(at(f, r, name))))

-----------------------------------------------------------------------------
(* Column names.  str.strip().lower() and the substring tests are tables    *)
(* over the header spellings the model feeds in.                            *)

lower_strip(h) ==
    CASE h = "Datetime" -> "datetime"
      [] h = "Date" -> "date"
      [] h = "Timestamp" -> "timestamp"
      [] h = "PM2.5" -> "pm2.5"
      [] h = "PM10" -> "pm10"
      [] h = " Site " -> "site"
      [] h = "Station" -> "station"
      [] h = "Location" -> "location"
      [] h = "Temp" -> "temp"
      [] h = "RH" -> "rh"
      [] h = "PM1" -> "pm1"
      [] OTHER -> h

\* 'date' in col.lower()
has_date(h) == lower_strip(h) \in {"date", "datetime"}

\* 'time' in col.lower()
has_time(h) == lower_strip(h) \in {"time", "datetime", "timestamp"}

-----------------------------------------------------------------------------
(* parse_dates *)

\* pd.to_datetime(..., errors='coerce') without a format: text that is a date
\* parses, anything else becomes NaT
to_datetime(c) ==
    CASE c.k = "ts" -> c
      [] c.k = "text" /\ c.fmt \in {"iso", "dby"} -> Ts(c.y, c.m, c.d, c.h)
      [] OTHER -> NaN

\* pd.to_datetime(..., format='%d-%b-%y', errors='coerce')
to_datetime_dby(c) ==
    CASE c.k = "ts" -> c
      [] c.k = "text" /\ c.fmt = "dby" -> Ts(c.y, c.m, c.d, 0)
      [] OTHER -> NaN

\* Quant AQ: the first date- or time-named column fills 'datetime'
parse_dates_quant(f) ==
    LET hits == {i \in 1..Len(f.cols) : has_date(f.cols[i]) \/ has_time(f.cols[i])}
    IN  IF hits = {} THEN f
        ELSE dropna_subset(
                 set_col(f, "datetime", LAMBDA r : to_datetime(r[Min(hits)])),
                 "datetime")

\* AirQo: as Quant AQ, without utc=True
parse_dates_airqo(f) ==
    LET hits == {i \in 1..Len(f.cols) : has_date(f.cols[i]) \/ has_time(f.cols[i])}
    IN  IF hits = {} THEN f
        ELSE dropna_subset(
                 set_col(f, "datetime", LAMBDA r : to_datetime(r[Min(hits)])),
                 "datetime")

\* Gravimetric: every date-named column is parsed in place
RECURSIVE parse_dates_grav_loop(_, _)
parse_dates_grav_loop(f, todo) ==
    IF todo = <<>> THEN f
    ELSE LET i == Head(todo)
             g == Frame(f.cols,
                        SeqMap(LAMBDA r : [r EXCEPT ![i] = to_datetime_dby(r[i])], f.rows))
         IN  parse_dates_grav_loop(
                 Frame(g.cols, SelectSeq(g.rows, LAMBDA r : ~isna(r[i]))),
                 Tail(todo))

parse_dates_grav(f) ==
    parse_dates_grav_loop(f, SortedSeq({i \in 1..Len(f.cols) : has_date(f.cols[i])}))

parse_dates(v, f) ==
    CASE v = "quant" -> parse_dates_quant(f)
      [] v = "airqo" -> parse_dates_airqo(f)
      [] v = "grav"  -> parse_dates_grav(f)

-----------------------------------------------------------------------------
(* standardize_columns *)

\* [c.lower() for c in pm25_cols]
pm25_cols(v) ==
    IF v = "quant" THEN {"pm25", "pm2.5", "pm25_avg"}
    ELSE {"pm25", "pm2.5", "pm_2_5", "pm25_avg"}

pm10_cols == {"pm10", "pm_10"}

site_cols == {"site", "station", "location"}

\* df.rename(columns={old: new}, inplace=True)
rename_col(cols, old, new) == SeqMap(LAMBDA c : IF c = old THEN new ELSE c, cols)

RECURSIVE standardize_loop(_, _, _)
standardize_loop(v, cols, todo) ==
    IF todo = <<>> THEN cols
    ELSE LET col == Head(todo)
             col_lower == lower_strip(col)
             c1 == IF col_lower \in pm25_cols(v) THEN rename_col(cols, col, "pm25") ELSE cols
             c2 == IF col_lower \in pm10_cols THEN rename_col(c1, col, "pm10") ELSE c1
             c3 == IF col_lower \in site_cols THEN rename_col(c2, col, "site") ELSE c2
         IN  standardize_loop(v, c3, Tail(todo))

standardize_columns(v, f) == Frame(standardize_loop(v, f.cols, f.cols), f.rows)

-----------------------------------------------------------------------------
(* Calendar fields *)

\* datetime.weekday(): Monday is 0
weekday(t) ==
    LET off == <<0, 3, 2, 5, 0, 3, 5, 1, 4, 6, 2, 4>>
        y == IF t.m < 3 THEN t.y - 1 ELSE t.y
        sunday0 == (y + y \div 4 - y \div 100 + y \div 400 + off[t.m] + t.d) % 7
    IN  (sunday0 + 6) % 7

day_name(t) ==
    << "Monday", "Tuesday", "Wednesday", "Thursday",
       "Friday", "Saturday", "Sunday" >>[weekday(t) + 1]

\* dt.to_period('M').astype(str), dt.to_period('Q').astype(str), dt.date
month_of(t) == [k |-> "month", y |-> t.y, m |-> t.m]
quarter_of(t) == [k |-> "quarter", y |-> t.y, q |-> (t.m - 1) \div 3 + 1]
date_of(t) == [k |-> "date", y |-> t.y, m |-> t.m, d |-> t.d]

\* mutant: Saturday is a weekday
weekday_type_sunday_only(t) == IF weekday(t) > 5 THEN "Weekend" ELSE "Weekday"

\* 'Weekend' if x >= 5 else 'Weekday'
weekday_type(t) == IF weekday(t) >= 5 THEN "Weekend" ELSE "Weekday"

season(t) == IF t.m \in {12, 1, 2} THEN "Harmattan" ELSE "Non-Harmattan"

\* the seven derived columns, from column tcol
calendar_fields(f, tcol) ==
    LET f1 == set_col(f, "year", LAMBDA r : Num(at(f, r, tcol).y))
        f2 == set_col(f1, "month", LAMBDA r : month_of(at(f, r, tcol)))
        f3 == set_col(f2, "quarter", LAMBDA r : quarter_of(at(f, r, tcol)))
        f4 == set_col(f3, "day", LAMBDA r : date_of(at(f, r, tcol)))
        f5 == set_col(f4, "dayofweek", LAMBDA r : Str(day_name(at(f, r, tcol))))
        f6 == set_col(f5, "weekday_type", LAMBDA r : Str(weekday_type(at(f, r, tcol))))
    IN  set_col(f6, "season", LAMBDA r : Str(season(at(f, r, tcol))))

-----------------------------------------------------------------------------
(* cleaned *)

required_columns(v) ==
    CASE v = "quant" -> <<"datetime", "site", "pm25", "pm10", "temp", "rh">>
      [] v = "airqo" -> <<"datetime", "site", "pm25", "pm10">>
      [] v = "grav"  -> <<"date", "site", "pm25", "pm10">>

\* df[name] is a DataFrame, not a Series: two or more columns carry the name
duplicated(f, name) == Cardinality(Positions(f.cols, name)) > 1

\* df[df[col] > 0]: the rows whose cell is positive; when col heads two
\* columns the key is a boolean frame and the selection ends with a ValueError
positive_rows(f, name) ==
    IF duplicated(f, name) THEN Raise("ValueError")
    ELSE Frame(f.cols, SelectSeq(f.rows, LAMBDA r : Gt(at(f, r, name), 0)))

\* for col in [...]: if col in df.columns: df = df[df[col] > 0]
RECURSIVE positive_only(_, _)
positive_only(f, names) ==
    IF names = <<>> \/ ~f.ok THEN f
    ELSE positive_only(
             IF has_col(f, Head(names)) THEN positive_rows(f, Head(names)) ELSE f,
             Tail(names))

\* 0.94 * pm25 - 0.34 * temp - 0.08 * rh + 19.82 of the fields of row r
corrected_of(pm25, temp, rh) ==
    Rat(94 * pm25 - 34 * temp - 8 * rh + 1982 * Scale, Scale, <<<<pm25, temp, rh>>>>)

\* a blank operand gives a blank result
corrected_pm25(f, r) ==
    IF \E c \in {"pm25", "temp", "rh"} : isna(at(f, r, c)) THEN NaN
    ELSE corrected_of(at(f, r, "pm25").n, at(f, r, "temp").n, at(f, r, "rh").n)

\* the (site, month) of a row
site_month(f, r) == <<at(f, r, "site"), at(f, r, "month")>>

\* groupby(['site', 'month'])['day'].nunique(), for the group g
daily_counts(f, g) ==
    Cardinality({ at(f, f.rows[j], "day") :
        j \in {j \in 1..Len(f.rows) : site_month(f, f.rows[j]) = g} })

\* mutant: a group needs more than the threshold number of days
sufficient_sites_strict(f, threshold) ==
    { g \in {site_month(f, f.rows[j]) : j \in 1..Len(f.rows)} :
        daily_counts(f, g) > threshold }

\* daily_counts[daily_counts['daily_counts'] >= threshold][['site', 'month']]
sufficient_sites(f, threshold) ==
    { g \in {site_month(f, f.rows[j]) : j \in 1..Len(f.rows)} :
        daily_counts(f, g) >= threshold }

\* df.merge(sufficient_sites, on=['site', 'month']): an inner join on a key
\* that is unique on the right keeps the matching rows in their order
merge_on_site_month(f, keep) ==
    Frame(f.cols, SelectSeq(f.rows, LAMBDA r : site_month(f, r) \in keep))

QuantMinDays == 20
AirqoMinDays == 15

\* A name can head two columns of the frame cleaned works on (a header
\* Datetime beside the 'datetime' parse_dates adds, two aliases of one
\* pollutant); df[name] is then a DataFrame.  It is no key of a row filter,
\* has no .dt accessor and is no grouping key: the call ends with an
\* exception at the first line that needs the column.

\* df.rename(columns=lambda x: x.strip().lower())
rename_lower(f) == Frame(SeqMap(lower_strip, f.cols), f.rows)

\* df = df[[col for col in required_columns if col in df.columns]]
\* df = df.dropna(axis=1, how='all').dropna()
required_only(v, f) ==
    dropna_rows(dropna_all_cols(take(f, present_positions(f.cols, required_columns(v)))))

\* the positivity loop of the Quant AQ page
quant_positive(f) == positive_only(f, <<"pm1", "pm25", "pm10", "temp", "rh">>)

\* df['corrected_pm25'] = ..., if pm25, temp and rh are all there
quant_corrected(f) ==
    IF \A c \in {"pm25", "temp", "rh"} : has_col(f, c)
    THEN set_col(f, "corrected_pm25", LAMBDA r : corrected_pm25(f, r))
    ELSE f

\* the coverage rule: the (site, month) groups with enough days
covered(f, threshold) == merge_on_site_month(f, sufficient_sites(f, threshold))

\* the calendar fields and the coverage rule of the Quant AQ and AirQo pages
calendar_and_coverage(f, threshold) ==
    IF ~has_col(f, "datetime") THEN Raise("KeyError: 'datetime'")
    ELSE IF duplicated(f, "datetime")
    THEN Raise("AttributeError: 'DataFrame' object has no attribute 'dt'")
    ELSE IF ~has_col(f, "site") THEN Raise("KeyError: 'site'")
    ELSE IF duplicated(f, "site")
    THEN Raise("ValueError: Grouper for 'site' not 1-dimensional")
    ELSE covered(calendar_fields(f, "datetime"), threshold)

\* the correction, the calendar fields and the coverage rule, unless the
\* positivity loop has raised
quant_calendar(p) ==
    IF ~p.ok THEN p ELSE calendar_and_coverage(quant_corrected(p), QuantMinDays)

quant_from_required(f) == quant_calendar(quant_positive(f))

cleaned_quant(df0) == quant_from_required(required_only("quant", rename_lower(df0)))

cleaned_airqo(df0) ==
    calendar_and_coverage(required_only("airqo", rename_lower(df0)), AirqoMinDays)

grav_calendar(f) ==
    IF ~has_col(f, "date") THEN Raise("KeyError: 'date'")
    ELSE IF duplicated(f, "date")
    THEN Raise("AttributeError: 'DataFrame' object has no attribute 'dt'")
    ELSE calendar_fields(f, "date")

cleaned_grav(df0) == grav_calendar(required_only("grav", rename_lower(df0)))

cleaned(v, df0) ==
    CASE v = "quant" -> cleaned_quant(df0)
      [] v = "airqo" -> cleaned_airqo(df0)
      [] v = "grav"  -> cleaned_grav(df0)

-----------------------------------------------------------------------------
(* Input files of the cleaner: two (site, month) groups of daily readings   *)

MaxDays == 21

\* distinct days of a group: none, around both thresholds, and above them
DayCounts == {0, 14, 15, 19, 20, MaxDays}

\* what is wrong with the first reading of the first group
Defects ==
    { "none", "nan_pm25", "zero_pm25", "neg_pm10", "neg_temp", "nan_rh",
      "neg_pm1", "bad_date", "nan_site" }

\* the second group shares the site ("site") or the month ("month") of the first
Shapes == {"site", "month"}

\* distinct days of the second group
OtherDayCounts == {0, 14, MaxDays}

\* sound files of every size, and files with one defective reading whose first
\* group sits on a threshold or just above it
FileParams ==
    [n1 : DayCounts, n2 : OtherDayCounts, per : 1..2, shape : Shapes,
     defect : {"none"}, layout : {"full"}]
      \cup [n1 : {15, 20, MaxDays}, n2 : {0, 14}, per : 1..2, shape : {"site"},
            defect : Defects \ {"none"}, layout : {"full"}]

\* the column layout of each source's export
file_cols(v) ==
    CASE v = "quant" -> <<"datetime", "temp", "rh", "pm1", "pm25", "pm10", "site">>
      [] v = "airqo" -> <<"datetime", "pm25", "pm10", "site">>
      [] v = "grav"  -> <<"date", "pm25", "pm10", "site">>

\* the headers a file comes with: the documented ones, one of them absent,
\* other spellings of them, the documented ones with a capital on the
\* timestamp, without the temperature and humidity channels, or with PM10
\* under two spellings
Layouts ==
    { "full", "no_time", "no_pm25", "no_pm10", "no_site", "alias", "capital",
      "no_temp", "twice" }

RECURSIVE Without(_, _)
Without(cols, name) ==
    IF cols = <<>> THEN <<>>
    ELSE IF Head(cols) = name THEN Without(Tail(cols), name)
    ELSE <<Head(cols)>> \o Without(Tail(cols), name)

layout_cols(v, layout) ==
    CASE layout = "full" -> file_cols(v)
      [] layout = "no_time" -> Without(file_cols(v), IF v = "grav" THEN "date" ELSE "datetime")
      [] layout = "no_pm25" -> Without(file_cols(v), "pm25")
      [] layout = "no_pm10" -> Without(file_cols(v), "pm10")
      [] layout = "no_site" -> Without(file_cols(v), "site")
      [] layout = "alias" ->
            (CASE v = "quant" -> <<"Timestamp", "Temp", "RH", "PM1", "PM2.5", "PM10", "Station">>
               [] v = "airqo" -> <<"Timestamp", "pm_2_5", "PM10", "Location">>
               [] v = "grav"  -> <<"Date", "PM2.5", "pm_10", " Site ">>)
      [] layout = "capital" ->
            (CASE v = "quant" -> <<"Datetime", "temp", "rh", "pm1", "pm25", "pm10", "site">>
               [] v = "airqo" -> <<"Datetime", "pm25", "pm10", "site">>
               [] v = "grav"  -> <<"Date", "pm25", "pm10", "site">>)
      [] layout = "no_temp" -> Without(Without(file_cols(v), "temp"), "rh")
      [] layout = "twice" ->
            (CASE v = "quant" ->
                    <<"datetime", "temp", "rh", "pm1", "pm25", "pm10", "PM10", "site">>
               [] v = "airqo" -> <<"datetime", "pm25", "pm10", "PM10", "site">>
               [] v = "grav"  -> <<"date", "pm25", "pm10", "PM10", "site">>)

\* what a header of a generated file holds
meaning(col) ==
    LET l == lower_strip(col)
    IN  CASE l \in {"datetime", "date", "timestamp"} -> "time"
          [] l \in {"pm25", "pm2.5", "pm_2_5", "pm25_avg"} -> "pm25"
          [] l \in {"pm10", "pm_10"} -> "pm10"
          [] l \in {"site", "station", "location"} -> "site"
          [] OTHER -> l

\* the reading k (0, 1) of day d of month m at a site; readings lie on the
\* 0.5 grid
gen_cell(v, col, site, m, d, k, defect) ==
    CASE col = "time" ->
            IF defect = "bad_date" THEN Text("bad", 0, 0, 0, 0)
            ELSE IF v = "grav" THEN Text("dby", 2023, m, d, 0)
            ELSE Text("iso", 2023, m, d, 12 * k)
      [] col = "pm25" ->
            IF defect = "nan_pm25" THEN NaN
            ELSE IF defect = "zero_pm25" THEN Num(0)
            ELSE Num(T(5 * (10 + d + k)))
      [] col = "pm10" ->
            IF defect = "neg_pm10" THEN Num(0 - T(5)) ELSE Num(T(5 * (60 + 3 * d)))
      [] col = "temp" ->
            IF defect = "neg_temp" THEN Num(0 - T(10)) ELSE Num(T(5 * (50 + d)))
      [] col = "rh" ->
            IF defect = "nan_rh" THEN NaN ELSE Num(T(5 * (120 + k)))
      [] col = "pm1" ->
            IF defect = "neg_pm1" THEN Num(0 - T(10)) ELSE Num(T(5 * (4 + d)))
      [] col = "site" ->
            IF defect = "nan_site" THEN NaN ELSE Str(site)

gen_row(v, cols, site, m, d, k, defect) ==
    [i \in 1..Len(cols) |-> gen_cell(v, meaning(cols[i]), site, m, d, k, defect)]

gen_group(v, cols, site, m, n, per, defect) ==
    [j \in 1..(n * per) |->
        gen_row(v, cols, site, m, (j - 1) \div per + 1, (j - 1) % per,
                IF j = 1 THEN defect ELSE "none")]

\* pd.read_csv(file): the frame of the file described by p
gen_file(v, p) ==
    LET cols == layout_cols(v, p.layout)
    IN  Frame(cols,
              gen_group(v, cols, "A", 1, p.n1, p.per, p.defect)
                \o gen_group(v, cols,
                             IF p.shape = "site" THEN "A" ELSE "B",
                             IF p.shape = "site" THEN 3 ELSE 1,
                             p.n2, p.per, "none"))

-----------------------------------------------------------------------------
(* The cleaner applied to a frame, and applied again to its own output *)

InitClean ==
    /\ variant \in Variants
    /\ pc = "read"
    /\ file \in FileParams
    /\ raw = Unset /\ df = Unset /\ df2 = Unset
    /\ IdleAqi /\ IdleUpload /\ IdlePrep /\ IdleTabs /\ IdleMetal /\ IdleApp

\* df = pd.read_csv(file); df = parse_dates(df); df = standardize_columns(df)
ReadFile ==
    /\ pc = "read"
    /\ raw' = standardize_columns(variant, parse_dates(variant, gen_file(variant, file)))
    /\ pc' = "clean"
    /\ UNCHANGED <<variant, file, df, df2, aqi_vars, upload_vars,
                   prep_vars, tab_inputs, metal_vars, app_vars, tab_vars>>

\* df = cleaned(df)
Cleaned ==
    /\ pc = "clean"
    /\ df' = cleaned(variant, raw)
    /\ pc' = "cleaned"
    /\ UNCHANGED <<variant, file, raw, df2, aqi_vars, upload_vars,
                   prep_vars, tab_inputs, metal_vars, app_vars, tab_vars>>

\* cleaned() applied to the frame it returned
CleanedAgain ==
    /\ pc = "cleaned"
    /\ df.ok
    /\ df2' = cleaned(variant, df)
    /\ pc' = "cleaned2"
    /\ UNCHANGED <<variant, file, raw, df, aqi_vars, upload_vars,
                   prep_vars, tab_inputs, metal_vars, app_vars, tab_vars>>

NextClean == ReadFile \/ Cleaned \/ CleanedAgain

SpecClean == InitClean /\ [][NextClean]_vars

-----------------------------------------------------------------------------
(* Claims about the cleaner, checked under SpecClean *)

\* a reading is identified by its site and timestamp, which no two rows of an
\* input file share
RowKey(f, r, tcol) == <<at(f, r, "site"), at(f, r, tcol)>>

TimeCol == IF variant = "grav" THEN "date" ELSE "datetime"

\* the columns whose missing values drop a row
C6_Required ==
    IF variant = "quant" THEN {"datetime", "site", "pm25", "pm10", "temp", "rh"}
    ELSE {"datetime", "site", "pm25", "pm10"}

\* the row of raw survives the missing-value and positivity filters
C6_Survives(r) ==
    /\ \A c \in C6_Required : ~isna(at(raw, r, c))
    /\ variant = "quant" =>
          \A c \in {"pm25", "pm10", "temp", "rh"} : at(raw, r, c).n > 0

\* the (site, year, month) of a row of raw
C6_Group(r) ==
    <<at(raw, r, "site"), at(raw, r, "datetime").y, at(raw, r, "datetime").m>>

\* distinct days of group g among the surviving rows of raw
C6_Days(g) ==
    Cardinality({ date_of(at(raw, raw.rows[j], "datetime")) :
        j \in {j \in 1..Len(raw.rows) :
                 C6_Survives(raw.rows[j]) /\ C6_Group(raw.rows[j]) = g} })

C6_Threshold == IF variant = "quant" THEN 20 ELSE 15

\* C6: after cleaned() in the Quant AQ (20) and AirQo (15) variants the output
\* holds exactly the surviving rows whose (site, month) group has at least the
\* threshold number of distinct days, so every group present meets the
\* threshold, is kept whole, and every group below it is dropped whole.
C6_CoverageRule ==
    (pc = "cleaned" /\ variant \in {"quant", "airqo"} /\ df.ok) =>
        LET met == { g \in {C6_Group(raw.rows[j]) : j \in 1..Len(raw.rows)} :
                        C6_Days(g) >= C6_Threshold }
        IN  /\ SeqMap(LAMBDA r : RowKey(df, r, "datetime"), df.rows)
                 = SeqMap(LAMBDA r : RowKey(raw, r, "datetime"),
                          SelectSeq(raw.rows,
                              LAMBDA r : C6_Survives(r) /\ C6_Group(r) \in met))
            /\ \A g \in {site_month(df, df.rows[j]) : j \in 1..Len(df.rows)} :
                  Cardinality({ at(df, df.rows[j], "day") :
                      j \in {j \in 1..Len(df.rows) : site_month(df, df.rows[j]) = g} })
                    >= C6_Threshold

\* a group of 15 days is kept by AirQo next to a group of 14 days that is dropped
C6_Witness ==
    /\ pc = "cleaned" /\ variant = "airqo" /\ df.ok
    /\ file.n1 = 15 /\ file.n2 = 14 /\ file.per = 2 /\ file.defect = "none"
    /\ Len(raw.rows) = 58 /\ Len(df.rows) = 30

\* distinct observed days of the (site, month) of row r of the output, among
\* the rows handed to the cleaner
C7_ObservedDays(r) ==
    Cardinality({ date_of(at(raw, raw.rows[j], TimeCol)) :
        j \in {j \in 1..Len(raw.rows) :
                 /\ at(raw, raw.rows[j], "site") = at(df, r, "site")
                 /\ month_of(at(raw, raw.rows[j], TimeCol)) = at(df, r, "month")} })

\* C7: in every variant (Quant AQ, AirQo, Gravimetric) a site-month with fewer
\* than 15 distinct observed days contributes no row to the cleaner's output.
C7_SparseMonthAbsent ==
    (pc = "cleaned" /\ df.ok) =>
        \A i \in 1..Len(df.rows) : C7_ObservedDays(df.rows[i]) >= 15

\* C8: cleaned() is idempotent in every variant: cleaned(cleaned(d)) returns
\* the same columns, rows and values as cleaned(d).
C8_Idempotent ==
    pc = "cleaned2" => df2 = df

\* C9: the Quant AQ cleaner drops every input row in which any of pm1, pm25,
\* pm10, temp or rh is <= 0.
C9_NonPositiveDropped ==
    (pc = "cleaned" /\ variant = "quant" /\ df.ok) =>
        \A i \in 1..Len(raw.rows) :
            (\E c \in {"pm1", "pm25", "pm10", "temp", "rh"} :
                  has_col(raw, c) /\ at(raw, raw.rows[i], c).k = "num"
                     /\ at(raw, raw.rows[i], c).n <= 0)
              => \A j \in 1..Len(df.rows) :
                    RowKey(df, df.rows[j], "datetime")
                       # RowKey(raw, raw.rows[i], "datetime")

-----------------------------------------------------------------------------
(* The cleaner on files of one site and one month, for every month of two   *)
(* years                                                                    *)

CalendarYears == {2023, 2024}
CalendarFirstDays == {1, 7}

\* a file of MaxDays consecutive daily readings of site A, from day first of
\* month m of year y
CalendarParams == [y : CalendarYears, m : 1..12, first : CalendarFirstDays]

calendar_cell(v, col, p, d) ==
    IF col = "time"
    THEN Text(IF v = "grav" THEN "dby" ELSE "iso", p.y, p.m, d, 12)
    ELSE gen_cell(v, col, "A", p.m, d, 0, "none")

\* pd.read_csv(file): the frame of the file described by p
calendar_file(v, p) ==
    Frame(file_cols(v),
          [j \in 1..MaxDays |->
              [i \in 1..Len(file_cols(v)) |->
                  calendar_cell(v, meaning(file_cols(v)[i]), p, p.first + j - 1)]])

InitCalendar ==
    /\ variant \in Variants
    /\ pc = "read_month"
    /\ file \in CalendarParams
    /\ raw = Unset /\ df = Unset /\ df2 = Unset
    /\ IdleAqi /\ IdleUpload /\ IdlePrep /\ IdleTabs /\ IdleMetal /\ IdleApp

\* df = pd.read_csv(file); df = parse_dates(df); df = standardize_columns(df)
ReadMonth ==
    /\ pc = "read_month"
    /\ raw' = standardize_columns(variant, parse_dates(variant, calendar_file(variant, file)))
    /\ pc' = "clean"
    /\ UNCHANGED <<variant, file, df, df2, aqi_vars, upload_vars,
                   prep_vars, tab_inputs, metal_vars, app_vars, tab_vars>>

NextCalendar == ReadMonth \/ Cleaned

SpecCalendar == InitCalendar /\ [][NextCalendar]_vars

\* days in the months before month m of year y (2024 is a leap year)
C24_DaysBefore(y, m) ==
    LET len == <<31, IF y = 2024 THEN 29 ELSE 28, 31, 30, 31, 30, 31, 31, 30, 31, 30, 31>>
        sum[i \in 0..12] == IF i = 0 THEN 0 ELSE sum[i - 1] + len[i]
    IN  sum[m - 1]

\* days from Sunday 2023-01-01 to the day d of month m of year y
C24_DayNumber(y, m, d) ==
    (IF y = 2024 THEN 365 ELSE 0) + C24_DaysBefore(y, m) + d - 1

\* the timestamp column of the cleaned frame
C24_TimeColumn == IF variant = "grav" THEN "date" ELSE "datetime"

\* C24: in every cleaned record weekday_type is 'Weekend' exactly when the
\* timestamp falls on a Saturday or Sunday and 'Weekday' otherwise, season is
\* 'Harmattan' exactly when its month is 12, 1 or 2 and 'Non-Harmattan'
\* otherwise, and year, month and quarter are those of the same timestamp.
C24_CalendarFields ==
    (pc = "cleaned" /\ df.ok) =>
        \A j \in 1..Len(df.rows) :
            LET r == df.rows[j]
                t == at(df, r, C24_TimeColumn)
                n == C24_DayNumber(t.y, t.m, t.d)
            IN  /\ at(df, r, "weekday_type")
                      = Str(IF n % 7 \in {0, 6} THEN "Weekend" ELSE "Weekday")
                /\ at(df, r, "season")
                      = Str(IF t.m = 12 \/ t.m = 1 \/ t.m = 2
                            THEN "Harmattan" ELSE "Non-Harmattan")
                /\ at(df, r, "year") = Num(t.y)
                /\ at(df, r, "month").y = t.y /\ at(df, r, "month").m = t.m
                /\ at(df, r, "quarter").y = t.y
                /\ at(df, r, "quarter").q
                      = (CASE t.m \in 1..3 -> 1 [] t.m \in 4..6 -> 2
                           [] t.m \in 7..9 -> 3 [] t.m \in 10..12 -> 4)

\* A file of February 2024 read by the Quant AQ page: Saturday the 10th is a
\* weekend day, Friday the 9th is not, and the season is Harmattan.
C24_Witness ==
    /\ pc = "cleaned" /\ variant = "quant" /\ df.ok
    /\ file = [y |-> 2024, m |-> 2, first |-> 7]
    /\ Len(df.rows) = MaxDays
    /\ \E j \in 1..Len(df.rows) :
          /\ at(df, df.rows[j], "day") = date_of(Ts(2024, 2, 10, 12))
          /\ at(df, df.rows[j], "weekday_type") = Str("Weekend")
          /\ at(df, df.rows[j], "season") = Str("Harmattan")
    /\ \E j \in 1..Len(df.rows) :
          /\ at(df, df.rows[j], "day") = date_of(Ts(2024, 2, 9, 12))
          /\ at(df, df.rows[j], "weekday_type") = Str("Weekday")

-----------------------------------------------------------------------------
(* The upload loop of a page: for file in uploaded_files *)

MaxFiles == 2

\* file names, split at the dots
FileNames == << <<"a", "csv">>, <<"b", "xlsx">>, <<"c", "csv">>, <<"d", "v2", "csv">> >>

\* a month of 20 daily readings under each layout, and a file without rows
UploadParams ==
    [n1 : {QuantMinDays}, n2 : {0}, per : {1}, shape : {"site"},
     defect : {"none"}, layout : Layouts]
      \cup [n1 : {0}, n2 : {0}, per : {1}, shape : {"site"},
            defect : {"none"}, layout : {"full"}]

\* file.name.split('.')[0]
label_of(name) == name[1]

\* the timestamp column the page asks for
time_column(v) == IF v = "grav" THEN "date" ELSE "datetime"

\* 'datetime' not in df.columns or 'pm25' not in df.columns or ...
missing_columns(v, f) ==
    \E c \in {time_column(v), "pm25", "pm10", "site"} : ~has_col(f, c)

\* dfs[label] = df
dict_set(d, key, val) ==
    [x \in DOMAIN d \cup {key} |-> IF x = key THEN val ELSE d[x]]

InitUpload ==
    /\ variant \in Variants
    /\ pc = "loop"
    /\ \E n \in 1..MaxFiles : \E ps \in [1..n -> UploadParams] :
          uploaded_files = [i \in 1..n |-> [name |-> FileNames[i], p |-> ps[i]]]
    /\ idx = 1
    /\ dfs = <<>>
    /\ warnings = <<>>
    /\ exception = ""
    /\ IdleAqi /\ IdleClean /\ IdlePrep /\ IdleTabs /\ IdleMetal /\ IdleApp

\* one pass of the loop body: read, parse_dates, standardize_columns, cleaned,
\* then the missing-columns test; an exception raised inside ends the run
ProcessFile ==
    /\ pc = "loop"
    /\ idx <= Len(uploaded_files)
    /\ LET f == uploaded_files[idx]
           label == label_of(f.name)
           d == cleaned(variant,
                    standardize_columns(variant,
                        parse_dates(variant, gen_file(variant, f.p))))
       IN  IF ~d.ok
           THEN /\ exception' = d.err
                /\ pc' = "exception"
                /\ UNCHANGED <<idx, dfs, warnings>>
           ELSE IF missing_columns(variant, d)
           THEN /\ warnings' = Append(warnings, label)
                /\ idx' = idx + 1
                /\ UNCHANGED <<pc, dfs, exception>>
           ELSE /\ dfs' = dict_set(dfs, label, d)
                /\ idx' = idx + 1
                /\ UNCHANGED <<pc, warnings, exception>>
    /\ UNCHANGED <<variant, uploaded_files, aqi_vars, clean_vars,
                   prep_vars, tab_inputs, metal_vars, app_vars, tab_vars>>

\* the loop has run through every file; the tabs are rendered next
LoopDone ==
    /\ pc = "loop"
    /\ idx > Len(uploaded_files)
    /\ pc' = "tabs"
    /\ UNCHANGED <<variant, uploaded_files, idx, dfs, warnings, exception,
                   aqi_vars, clean_vars, prep_vars, tab_inputs, metal_vars, app_vars, tab_vars>>

NextUpload == ProcessFile \/ LoopDone

SpecUpload == InitUpload /\ [][NextUpload]_vars

-----------------------------------------------------------------------------
(* Claims about the upload loop, checked under SpecUpload *)

\* the frame of file fd lacks a required canonical column after date parsing
\* and normalization
C10_Lacks(fd) ==
    LET f == standardize_columns(variant, parse_dates(variant, gen_file(variant, fd.p)))
    IN  \E c \in {time_column(variant), "pm25", "pm10", "site"} :
            c \notin {lower_strip(f.cols[i]) : i \in 1..Len(f.cols)}

\* C10: every file of a batch that lacks a required canonical column is
\* rejected with the 'missing columns' warning and kept out of dfs, and the
\* loop goes on with the remaining files; such a file never ends the batch
\* with an exception.
C10_MissingColumnsRejected ==
    /\ \A i \in 1..Len(uploaded_files) :
          (i < idx /\ C10_Lacks(uploaded_files[i])) =>
              /\ \E w \in 1..Len(warnings) : warnings[w] = label_of(uploaded_files[i].name)
              /\ label_of(uploaded_files[i].name) \notin DOMAIN dfs
    /\ pc = "exception" => ~C10_Lacks(uploaded_files[idx])

-----------------------------------------------------------------------------
(* groupby, merge and rounding, as the statistics functions use them.  A    *)
(* float column is fixed point in units of 1/Scale; a year, a count and an  *)
(* AQI are plain integers.                                                  *)

\* alphabetical order of the strings a group key can hold
str_rank(s) ==
    CASE s = "A" -> 1 [] s = "B" -> 2
      [] s = "Friday" -> 1 [] s = "Monday" -> 2 [] s = "Saturday" -> 3
      [] s = "Sunday" -> 4 [] s = "Thursday" -> 5 [] s = "Tuesday" -> 6
      [] s = "Wednesday" -> 7
      [] s = "Weekday" -> 1 [] s = "Weekend" -> 2
      [] s = "Harmattan" -> 1 [] s = "Non-Harmattan" -> 2
      [] s = "Good" -> 1 [] s = "Hazardous" -> 2 [] s = "Moderate" -> 3
      [] s = "Unhealthy" -> 4 [] s = "Unhealthy for Sensitive Groups" -> 5
      [] s = "Unknown" -> 6 [] s = "Very Unhealthy" -> 7

\* the position of a key cell in the sort order of its column
cell_rank(c) ==
    CASE c.k = "num" -> c.n
      [] c.k = "str" -> str_rank(c.s)
      [] c.k = "month" -> c.y * 12 + c.m
      [] c.k = "quarter" -> c.y * 4 + c.q
      [] c.k = "date" -> (c.y * 12 + c.m) * 31 + c.d

\* lexicographic order of group keys
RECURSIVE key_lt(_, _)
key_lt(a, b) ==
    IF a = <<>> THEN FALSE
    ELSE IF cell_rank(Head(a)) # cell_rank(Head(b))
         THEN cell_rank(Head(a)) < cell_rank(Head(b))
         ELSE key_lt(Tail(a), Tail(b))

\* groupby(..., sort=True): the group keys in ascending order
RECURSIVE sort_keys(_)
sort_keys(K) ==
    IF K = {} THEN <<>>
    ELSE LET m == CHOOSE x \in K : \A y \in K \ {x} : key_lt(x, y)
         IN  <<m>> \o sort_keys(K \ {m})

\* the key of row r under groupby(keys)
group_key(f, r, keys) == [i \in 1..Len(keys) |-> at(f, r, keys[i])]

group_keys(f, keys) ==
    sort_keys({group_key(f, f.rows[j], keys) : j \in 1..Len(f.rows)})

\* the rows of group g, in frame order
group_rows(f, keys, g) == SelectSeq(f.rows, LAMBDA r : group_key(f, r, keys) = g)

RECURSIVE sum_col(_, _, _)
sum_col(f, rows, name) ==
    IF rows = <<>> THEN 0
    ELSE at(f, Head(rows), name).n + sum_col(f, Tail(rows), name)

\* what the double of cell c was computed from: the fields of its row for a
\* corrected value, the parsed field otherwise
reading_src(c) == IF c.src # <<>> THEN c.src[1] ELSE <<c.n>>

value_src(f, r, name) == reading_src(at(f, r, name))

\* the readings of a group, in frame order
group_src(f, rows, name) == [i \in 1..Len(rows) |-> value_src(f, rows[i], name)]

\* the exact sum of the readings of column name over rows, in 1/Scale^2
RECURSIVE sum_exact(_, _, _)
sum_exact(f, rows, name) ==
    IF rows = <<>> THEN 0
    ELSE Units(at(f, Head(rows), name)) + sum_exact(f, Tail(rows), name)

\* the mean of a group of readings
mean(f, rows, name) ==
    Rat(sum_exact(f, rows, name), Scale * Len(rows), group_src(f, rows, name))

\* value.round(1) of a float: the rounding of its exact value unless that is
\* a tie, where the double decides the side
round1(c) ==
    Num(T(IF is_tie(c.n * 10, Den(c) * Scale) THEN rint_tenths(fl(c))
          ELSE round(c.n * 10, Den(c) * Scale)))

\* round1 of the mean of a group, from the sum of its readings in 1/Scale^2
round1_mean(total, f, rows, name) ==
    Num(T(IF is_tie(total * 10, Len(rows) * Scale * Scale)
          THEN rint_tenths(fl_mean(group_src(f, rows, name)))
          ELSE round(total * 10, Len(rows) * Scale * Scale)))

\* groupby(keys)[name].mean() followed by round(1)
mean_round1(f, rows, name) == round1_mean(sum_exact(f, rows, name), f, rows, name)

\* df.groupby(keys, as_index=False).agg({name: 'mean' for name in names})
groupby_mean(f, keys, names) ==
    LET gs == group_keys(f, keys)
    IN  Frame(keys \o names,
              [i \in 1..Len(gs) |->
                  gs[i] \o [j \in 1..Len(names) |->
                               mean(f, group_rows(f, keys, gs[i]), names[j])]])

\* mutant: every group is reported with no row in it
groupby_size_unobserved(f, keys, name) ==
    LET gs == group_keys(f, keys)
    IN  Frame(Append(keys, name), [i \in 1..Len(gs) |-> Append(gs[i], Num(0))])

\* df.groupby(keys).size().reset_index(name=name)
groupby_size(f, keys, name) ==
    LET gs == group_keys(f, keys)
    IN  Frame(Append(keys, name),
              [i \in 1..Len(gs) |->
                  Append(gs[i], Num(Len(group_rows(f, keys, gs[i]))))])

\* df[mask]
where(f, P(_)) == Frame(f.cols, SelectSeq(f.rows, P))

RECURSIVE Flatten(_)
Flatten(ss) == IF ss = <<>> THEN <<>> ELSE Head(ss) \o Flatten(Tail(ss))

\* the columns of a frame that are not among keys, as positions
value_positions(f, keys) ==
    SortedSeq({i \in 1..Len(f.cols) : \A j \in 1..Len(keys) : f.cols[i] # keys[j]})

\* the cells of row r at the given positions
pick(r, idxs) == [j \in 1..Len(idxs) |-> r[idxs[j]]]

\* left.merge(right, on=keys, how='left'): every left row, once per matching
\* right row, and once with NaN when no right row matches
merge_left(left, right, keys) ==
    LET vp == value_positions(right, keys)
        nans == [j \in 1..Len(vp) |-> NaN]
        joined(l) ==
            LET ms == group_rows(right, keys, group_key(left, l, keys))
            IN  IF ms = <<>> THEN << l \o nans >>
                ELSE [m \in 1..Len(ms) |-> l \o pick(ms[m], vp)]
    IN  Frame(left.cols \o pick(right.cols, vp),
              Flatten([i \in 1..Len(left.rows) |-> joined(left.rows[i])]))

\* pd.merge(left, right, on=keys, how='outer'): the keys of both sides in
\* ascending order; a key found on one side only gets NaN for the other
merge_outer(left, right, keys) ==
    LET lp == value_positions(left, keys)
        rp == value_positions(right, keys)
        lnans == [j \in 1..Len(lp) |-> NaN]
        rnans == [j \in 1..Len(rp) |-> NaN]
        gs == sort_keys({group_key(left, left.rows[j], keys) : j \in 1..Len(left.rows)}
                  \cup {group_key(right, right.rows[j], keys) : j \in 1..Len(right.rows)})
        joined(g) ==
            LET ls == group_rows(left, keys, g)
                rs == group_rows(right, keys, g)
            IN  IF rs = <<>> THEN [a \in 1..Len(ls) |-> g \o pick(ls[a], lp) \o rnans]
                ELSE IF ls = <<>> THEN [b \in 1..Len(rs) |-> g \o lnans \o pick(rs[b], rp)]
                ELSE Flatten([a \in 1..Len(ls) |->
                         [b \in 1..Len(rs) |-> g \o pick(ls[a], lp) \o pick(rs[b], rp)]])
    IN  Frame(keys \o pick(left.cols, lp) \o pick(right.cols, rp),
              Flatten([i \in 1..Len(gs) |-> joined(gs[i])]))

\* mutant: the counts of a year and site without an exceedance stay missing
fillna_skipped(f) == f

\* exceedance.fillna(0, inplace=True)
fillna(f) ==
    Frame(f.cols, SeqMap(LAMBDA r : [i \in 1..Len(r) |-> IF isna(r[i]) THEN Num(0) ELSE r[i]],
                         f.rows))

\* round(count / total * 100, 1); a missing operand gives NaN, a zero total
\* the fault value of a float division by zero
percent(count, total) ==
    IF ~IsNum(count) \/ ~IsNum(total) THEN NaN
    ELSE IF total.n = 0 THEN [k |-> "fault"]
    ELSE Num(T(IF is_tie(count.n * 1000, total.n)
               THEN rint_tenths(FMul(FDivInt(FromInt(count.n), total.n), FromInt(100)))
               ELSE round(count.n * 1000, total.n)))

\* the cells of column name of the cleaned frame that hold a number
C20_Values(name) ==
    IF has_col(df, name)
    THEN {at(df, df.rows[j], name) : j \in 1..Len(df.rows)}
    ELSE {}

\* C20: every pollutant concentration of every record a cleaner outputs is
\* non-negative: pm25 and pm10 (AirQo, Gravimetric), and pm25, pm10 and
\* corrected_pm25 (Quant AQ).
C20_NonNegative ==
    (pc = "cleaned" /\ df.ok) =>
        \A name \in {"pm25", "pm10", "corrected_pm25"} :
            \A c \in C20_Values(name) : IsNum(c) => c.n >= 0

-----------------------------------------------------------------------------
(* The statistics functions of a page *)

\* the PM2.5 column the page's statistics read
pm25_field(v) == IF v = "quant" THEN "corrected_pm25" ELSE "pm25"

\* df.groupby(keys, as_index=False).agg({...}): a column that is not in
\* the frame ends the call with a KeyError
daily_means(f, keys, names) ==
    IF \E i \in 1..Len(keys \o names) : ~has_col(f, (keys \o names)[i])
    THEN Raise("KeyError")
    ELSE groupby_mean(f, keys, names)

\* mutant: a day on the limit counts as an exceedance
exceeds_inclusive(c, limit) == c.k = "num" /\ fl_cmp(c, limit * Scale) >= 0

\* daily_avg[col] > limit
exceeds(c, limit) == c.k = "num" /\ fl_cmp(c, limit * Scale) > 0

calculate_exceedances(v, f) ==
    LET pm25 == pm25_field(v)
        daily == daily_means(f, <<"site", "day", "year", "month">>, <<pm25, "pm10">>)
    IN  IF ~daily.ok THEN daily
        ELSE
        LET pm25_exceed ==
                groupby_size(where(daily, LAMBDA r : exceeds(at(daily, r, pm25), 35)),
                             <<"year", "site">>, "PM25_Exceedance_Count")
            pm10_exceed ==
                groupby_size(where(daily, LAMBDA r : exceeds(at(daily, r, "pm10"), 70)),
                             <<"year", "site">>, "PM10_Exceedance_Count")
            total_days == groupby_size(daily, <<"year", "site">>, "Total_Records")
            e1 == fillna(merge_left(merge_left(total_days, pm25_exceed, <<"year", "site">>),
                                    pm10_exceed, <<"year", "site">>))
            e2 == set_col(e1, "PM25_Exceedance_Percent",
                      LAMBDA r : percent(at(e1, r, "PM25_Exceedance_Count"),
                                         at(e1, r, "Total_Records")))
        IN  set_col(e2, "PM10_Exceedance_Percent",
                LAMBDA r : percent(at(e2, r, "PM10_Exceedance_Count"),
                                   at(e2, r, "Total_Records")))

\* x.max() and x.min() of a column over the rows of a group
\* the double of cell c is at most that of cell d
fl_le(c, e) ==
    \/ c.n * Den(e) < e.n * Den(c)
    \/ c.n * Den(e) = e.n * Den(c) /\ (c = e \/ FCmp(fl(c), fl(e)) <= 0)

col_max(f, rows, name) ==
    CHOOSE c \in {at(f, rows[j], name) : j \in 1..Len(rows)} :
        \A j \in 1..Len(rows) : fl_le(at(f, rows[j], name), c)

col_min(f, rows, name) ==
    CHOOSE c \in {at(f, rows[j], name) : j \in 1..Len(rows)} :
        \A j \in 1..Len(rows) : fl_le(c, at(f, rows[j], name))

\* daily_avg.groupby(keys, as_index=False).agg(daily_avg_pm10_max=('pm10', ...),
\* ..., daily_avg_pm25_min=('pm25', ...)): the named columns are 'pm10' and
\* 'pm25' on every page
agg_min_max(daily, keys) ==
    IF ~has_col(daily, "pm10") \/ ~has_col(daily, "pm25")
    THEN Raise("KeyError: \"Column(s) ['pm25'] do not exist\"")
    ELSE LET gs == group_keys(daily, keys)
         IN  Frame(keys \o << "daily_avg_pm10_max", "daily_avg_pm10_min",
                              "daily_avg_pm25_max", "daily_avg_pm25_min" >>,
                   [i \in 1..Len(gs) |->
                       LET rows == group_rows(daily, keys, gs[i])
                       IN  gs[i] \o << round1(col_max(daily, rows, "pm10")),
                                       round1(col_min(daily, rows, "pm10")),
                                       round1(col_max(daily, rows, "pm25")),
                                       round1(col_min(daily, rows, "pm25")) >>])

calculate_min_max(v, f) ==
    LET daily ==
            IF v = "grav"
            THEN daily_means(f, <<"site", "day", "year">>, <<"pm25", "pm10">>)
            ELSE daily_means(f, <<"site", "day", "year", "month">>,
                             <<pm25_field(v), "pm10">>)
    IN  IF ~daily.ok THEN daily
        ELSE agg_min_max(daily, IF v = "grav" THEN <<"year", "site">>
                                ELSE <<"year", "site", "month">>)

\* mutant: the days without an AQI are left out of the total
transform_sum_known(f, r) ==
    LET known == where(f, LAMBDA x : at(f, x, "AQI_Remark") # Str("Unknown"))
    IN  Num(sum_col(known, group_rows(known, <<"site", "year">>,
                                      group_key(f, r, <<"site", "year">>)),
                    "Count"))

\* remarks_counts.groupby(['site', 'year'])['Count'].transform('sum')
transform_sum(f, r) ==
    Num(sum_col(f, group_rows(f, <<"site", "year">>, group_key(f, r, <<"site", "year">>)),
                "Count"))

\* daily_avg['AQI'] = daily_avg[pm25].apply(calculate_aqi)
aqi_column(v, daily) ==
    set_col(daily, "AQI", LAMBDA r : calculate_aqi(v, at(daily, r, pm25_field(v))))

\* daily_avg['AQI_Remark'] = np.select(conditions, remarks, default='Unknown')
remark_column(daily) ==
    set_col(daily, "AQI_Remark",
            LAMBDA r : Str(np_select(conditions(at(daily, r, "AQI")), remarks, "Unknown")))

\* remarks_counts['Total_Count_Per_Site_Year'] = ...transform('sum')
total_column(counts) ==
    set_col(counts, "Total_Count_Per_Site_Year", LAMBDA r : transform_sum(counts, r))

\* remarks_counts['Percent'] = round((Count / Total_Count_Per_Site_Year) * 100, 1)
percent_column(counts) ==
    set_col(counts, "Percent",
            LAMBDA r : percent(at(counts, r, "Count"),
                               at(counts, r, "Total_Count_Per_Site_Year")))

\* remarks_counts of the daily table with its AQI and remark columns
summarize_remarks(daily) ==
    [daily_avg |-> daily,
     remarks_counts |->
        percent_column(total_column(
            groupby_size(daily, <<"site", "year", "AQI_Remark">>, "Count")))]

\* the AQI columns and the summary of the frame of daily means, or its error
aqi_and_category(v, daily) ==
    IF ~daily.ok THEN [daily_avg |-> daily, remarks_counts |-> daily]
    ELSE summarize_remarks(remark_column(aqi_column(v, daily)))

\* calculate_aqi_and_category: the pair (daily_avg, remarks_counts)
calculate_aqi_and_category(v, f) ==
    aqi_and_category(v, daily_means(f, <<"site", "day", "year", "month">>,
                                    <<pm25_field(v)>>))

\* the seven grouping levels: (name, group keys)
aggregate_levels(v) ==
    << <<"Daily Avg", <<"day", "site">> >>,
       <<"Monthly Avg", <<"month", "site">> >>,
       <<"Quarterly Avg", <<"quarter", "site">> >>,
       <<"Yearly Avg", <<"year", "site">> >>,
       <<"Day of Week Avg", <<"dayofweek", "site">> >>,
       <<"Weekday Type Avg", <<"weekday_type", "site">> >>,
       <<"Season Avg", IF v = "grav" THEN <<"year", "season", "site">>
                       ELSE <<"season", "site">> >> >>

\* df.groupby(keys)[pollutant].mean().reset_index().round(1)
level_mean(f, keys, pollutant) ==
    LET gs == group_keys(f, keys)
    IN  Frame(Append(keys, pollutant),
              [i \in 1..Len(gs) |->
                  Append(gs[i], mean_round1(f, group_rows(f, keys, gs[i]), pollutant))])

\* compute_aggregates(df, label, pollutant): the seven tables of a pollutant
compute_aggregates(v, f, pollutant) ==
    [l \in 1..Len(aggregate_levels(v)) |->
        [level |-> aggregate_levels(v)[l][1], pollutant |-> pollutant,
         table |-> level_mean(f, aggregate_levels(v)[l][2], pollutant)]]

\* Quant AQ: if pollutant not in filtered_df.columns: continue
tables_if_present(v, f, pollutant) ==
    IF has_col(f, pollutant) THEN compute_aggregates(v, f, pollutant) ELSE <<>>

\* AirQo and Gravimetric: [p for p in ['pm25', 'pm10'] if p in filtered_df.columns]
valid_pollutants(f) == SelectSeq(<<"pm25", "pm10">>, LAMBDA p : has_col(f, p))

\* the options of the display selector
display_options(f) == <<"All">> \o valid_pollutants(f)

\* if "All" in selected_display_pollutants: selected_display_pollutants = valid_pollutants
shown_pollutants(selection, valid) ==
    IF \E i \in 1..Len(selection) : selection[i] = "All" THEN valid ELSE selection

\* reduce(lambda left, right: pd.merge(left, right, on=group_keys, how='outer'), agg_dfs)
merged_level(f, keys, valid) ==
    IF Len(valid) = 1 THEN level_mean(f, keys, valid[1])
    ELSE merge_outer(level_mean(f, keys, valid[1]), level_mean(f, keys, valid[2]), keys)

\* group_keys + [p for p in selected_display_pollutants if p in merged_df.columns]
display_cols(keys, shown, merged) == keys \o SelectSeq(shown, LAMBDA p : has_col(merged, p))

\* editable_df = merged_df[display_cols]
editable_df(merged, cols) == take(merged, [i \in 1..Len(cols) |-> col_idx(merged, cols[i])])

\* AirQo and Gravimetric: per level, the tables of the valid pollutants merged
\* on the group keys, with the columns chosen for display
merged_aggregates(v, f, selection) ==
    [l \in 1..Len(aggregate_levels(v)) |->
        [level |-> aggregate_levels(v)[l][1], pollutant |-> valid_pollutants(f),
         table |-> editable_df(
                       merged_level(f, aggregate_levels(v)[l][2], valid_pollutants(f)),
                       display_cols(aggregate_levels(v)[l][2],
                                    shown_pollutants(selection, valid_pollutants(f)),
                                    merged_level(f, aggregate_levels(v)[l][2],
                                                 valid_pollutants(f))))]]

\* reduce() of an empty list: the frame has neither pm25 nor pm10
aggregates_raise(v, f) == v # "quant" /\ valid_pollutants(f) = <<>>

\* the tables of the Aggregated Means tab
aggregated_means(v, f, selection) ==
    IF v = "quant"
    THEN tables_if_present(v, f, "corrected_pm25") \o tables_if_present(v, f, "pm10")
    ELSE IF aggregates_raise(v, f) THEN Raise("TypeError")
    ELSE merged_aggregates(v, f, selection)

\* filtered_df = df[df['year'].isin(...)][...['site'].isin(...)]; an empty selection
\* keeps every row
filtered(f, years, sites) ==
    LET f1 == IF years # {} THEN where(f, LAMBDA r : at(f, r, "year").n \in years) ELSE f
    IN  IF sites # {} THEN where(f1, LAMBDA r : at(f1, r, "site").s \in sites) ELSE f1

-----------------------------------------------------------------------------
(* Input files of the tabs: two blocks of daily readings, each a site in a  *)
(* month, with up to two readings a day.  Values are in units of 1/Scale.   *)

\* what the readings of the first block look like: all below the limits, all
\* above them, three days above them, days on and around the limits, or
\* readings in hundredths whose daily means have more decimals than they do
Profiles == {"low", "high", "three", "edge", "fine"}

\* the second block: the same site in another month, another site, or the same
\* site a year later
Blocks == {"site", "month", "year"}

\* one-block files of ten and of twenty days under every profile on the 0.5
\* grid, a one-block file of fine readings, two-block files with two readings
\* a day, and a one-block file without the temperature and humidity channels
TabParams ==
    [n1 : {10, QuantMinDays}, n2 : {0}, per : 1..2, block : {"site"},
     profile : Profiles \ {"fine"}, layout : {"full"}]
      \cup [n1 : {QuantMinDays}, n2 : {0}, per : {2}, block : {"site"},
            profile : {"fine"}, layout : {"full"}]
      \cup [n1 : {10, QuantMinDays}, n2 : {QuantMinDays}, per : {2}, block : Blocks,
            profile : {"low", "edge"}, layout : {"full"}]
      \cup [n1 : {QuantMinDays}, n2 : {0}, per : {1}, block : {"site"},
            profile : {"high"}, layout : {"no_temp"}]

\* pm25 of reading k of day d
tab_pm25(v, profile, d, k) ==
    CASE profile = "low" -> 1000 + 50 * d + 100 * k
      [] profile = "high" -> 3600 + 100 * d + 100 * k
      [] profile = "three" -> IF d <= 3 THEN 4000 + 100 * d ELSE 2000 + 100 * d
      [] profile = "edge" ->
            CASE d = 1 -> IF v = "quant" THEN 3050 ELSE 3500
              [] d = 2 -> 3550
              [] d = 3 -> IF v = "quant" THEN 500 ELSE 905
              [] d = 4 -> IF k = 0 THEN 6000 ELSE 2000
              [] d = 5 -> IF k = 0 THEN 2500 ELSE 4500
              [] d = 6 -> IF k = 0 THEN 2000 ELSE 4400
              [] d = 7 -> IF v = "quant" THEN 100 ELSE 900
              [] OTHER -> 1200 + 50 * d
      [] profile = "fine" ->
            CASE d = 1 -> 3027 + 15 * k
              [] d = 2 -> 4407 + 3 * k
              [] OTHER -> 937 - k

tab_pm10(v, profile, d, k) ==
    CASE profile = "low" -> 3000 + 100 * d
      [] profile = "high" -> 7100 + 100 * d
      [] profile = "three" -> 4000 + 100 * d
      [] profile = "edge" ->
            CASE d = 1 -> 7000
              [] d = 2 -> 7050
              [] d = 3 -> IF k = 0 THEN 10000 ELSE 3000
              [] d = 5 -> IF k = 0 THEN 6000 ELSE 8000
              [] OTHER -> 4000 + 100 * d
      [] profile = "fine" -> IF d = 1 THEN 6999 + 3 * k ELSE 4001 + 7 * d + k

tab_temp(v, profile, d, k) ==
    IF profile = "fine" THEN (IF d = 1 THEN 2401 ELSE IF d = 2 THEN 3801 ELSE 2500)
    ELSE IF profile = "edge" /\ d = 1 THEN 2450
    ELSE IF profile = "edge" /\ d = 3 THEN 2550
    ELSE IF profile = "edge" /\ d = 7 THEN 4000
    ELSE 2500

tab_rh(v, profile, d, k) ==
    IF profile = "fine" THEN (IF d = 1 THEN 6476 ELSE IF d = 2 THEN 3230 ELSE 6000)
    ELSE IF profile = "edge" /\ d = 1 THEN 6450
    ELSE IF profile = "edge" /\ d = 3 THEN 8500
    ELSE IF profile = "edge" /\ d = 7 THEN 9500
    ELSE 6000

tab_cell(v, col, site, y, m, d, k, profile) ==
    CASE col = "time" ->
            IF v = "grav" THEN Text("dby", y, m, d, 0) ELSE Text("iso", y, m, d, 12 * k)
      [] col = "pm25" -> Num(tab_pm25(v, profile, d, k))
      [] col = "pm10" -> Num(tab_pm10(v, profile, d, k))
      [] col = "temp" -> Num(tab_temp(v, profile, d, k))
      [] col = "rh" -> Num(tab_rh(v, profile, d, k))
      [] col = "pm1" -> Num(T(50))
      [] col = "site" -> Str(site)

tab_block(v, cols, site, y, m, n, per, profile) ==
    [j \in 1..(n * per) |->
        [i \in 1..Len(cols) |->
            tab_cell(v, meaning(cols[i]), site, y, m, (j - 1) \div per + 1,
                     (j - 1) % per, profile)]]

\* pd.read_csv(file): the frame of the file described by p
tab_file(v, p) ==
    LET cols == layout_cols(v, p.layout)
    IN  Frame(cols,
              tab_block(v, cols, "A", 2023, 1, p.n1, p.per, p.profile)
                \o tab_block(v, cols,
                             IF p.block = "month" THEN "B" ELSE "A",
                             IF p.block = "year" THEN 2024 ELSE 2023,
                             IF p.block = "site" THEN 3 ELSE 1,
                             p.n2, p.per, "high"))

\* year_options / sorted(df['site'].unique()): what a selector offers
year_options(f) == {at(f, f.rows[j], "year").n : j \in 1..Len(f.rows)}
site_options(f) == {at(f, f.rows[j], "site").s : j \in 1..Len(f.rows)}

\* what st.multiselect returns in a run: any of the options, none or all
Selections(options) == SUBSET options

\* the same as a list, in the order the options were picked
DisplaySelections(options) ==
    { sel \in UNION {[1..n -> {options[i] : i \in 1..Len(options)}] : n \in 0..Len(options)} :
        \A i, j \in 1..Len(sel) : sel[i] = sel[j] => i = j }

\* the file on which every display selection is made; on the others the
\* selector is left at its default
DisplayFile ==
    [n1 |-> QuantMinDays, n2 |-> 0, per |-> 1, block |-> "site", profile |-> "low", layout |-> "full"]

DisplayInputs(p, options) ==
    IF p = DisplayFile THEN DisplaySelections(options) ELSE {<<"All">>}

aqi_colors(remark) ==
    CASE remark = "Good" -> Str("#00e400")
      [] remark = "Moderate" -> Str("#ffff00")
      [] remark = "Unhealthy for Sensitive Groups" -> Str("#ff7e00")
      [] remark = "Unhealthy" -> Str("#ff0000")
      [] remark = "Very Unhealthy" -> Str("#8f3f97")
      [] remark = "Hazardous" -> Str("#7e0023")
      [] OTHER -> NaN

\* remarks_counts['Color'] = remarks_counts['AQI_Remark'].map(aqi_colors)
color_column(counts) ==
    Frame(Append(counts.cols, "Color"),
          [i \in 1..Len(counts.rows) |->
              Append(counts.rows[i], aqi_colors(at(counts, counts.rows[i], "AQI_Remark").s))])

-----------------------------------------------------------------------------
(* One script run of a page with one uploaded file: the file is read and    *)
(* cleaned, then the four tabs are rendered in order.  The sidebar offers   *)
(* the years of the loaded frame, each tab's own selector its sites, and    *)
(* the first tab of the AirQo and Gravimetric pages the pollutants to show. *)

InitTabs ==
    /\ variant \in Variants
    /\ pc = "upload"
    /\ file \in TabParams
    /\ raw = Unset /\ df = Unset /\ df2 = Unset
    /\ selected_years = {}
    /\ site_in_tab = {}
    /\ selected_display_pollutants = <<"All">>
    /\ filtered_df = Unset
    /\ aggregates = Unset /\ exceedance = Unset /\ daily_avg = Unset
    /\ remarks_counts = Unset /\ min_max = Unset
    /\ IdleAqi /\ IdleUpload /\ IdlePrep /\ IdleMetal /\ IdleApp

\* df = pd.read_csv(file); df = parse_dates(df); df = standardize_columns(df)
ReadUpload ==
    /\ pc = "upload"
    /\ raw' = standardize_columns(variant, parse_dates(variant, tab_file(variant, file)))
    /\ pc' = "clean"
    /\ UNCHANGED <<variant, file, df, df2, aqi_vars, upload_vars, prep_vars,
                   tab_inputs, metal_vars, app_vars, tab_vars>>

\* the frame passed the missing-columns test and is in dfs
in_dfs == df.ok /\ ~missing_columns(variant, df)

\* the sidebar, then with tabs[0]
AggregatedMeansTab ==
    /\ pc = "cleaned" /\ aggregates = Unset /\ in_dfs
    /\ selected_years' \in Selections(year_options(df))
    /\ site_in_tab' \in Selections(site_options(df))
    /\ filtered_df' = filtered(df, selected_years', site_in_tab')
    /\ selected_display_pollutants' \in
          IF variant = "quant" THEN {selected_display_pollutants}
          ELSE DisplayInputs(file, display_options(filtered_df'))
    /\ aggregates' = aggregated_means(variant, filtered_df', selected_display_pollutants')
    /\ pc' = IF aggregates_raise(variant, filtered_df') THEN "exception" ELSE "tab1"
    /\ exception' = IF aggregates_raise(variant, filtered_df') THEN "TypeError"
                    ELSE exception
    /\ UNCHANGED <<variant, aqi_vars, clean_vars, uploaded_files, idx, dfs, warnings,
                   prep_vars, metal_vars, app_vars,
                   exceedance, daily_avg, remarks_counts, min_max>>

\* with tabs[1]
ExceedancesTab ==
    /\ pc = "tab1"
    /\ site_in_tab' \in Selections(site_options(df))
    /\ filtered_df' = filtered(df, selected_years, site_in_tab')
    /\ exceedance' = calculate_exceedances(variant, filtered_df')
    /\ pc' = IF exceedance'.ok THEN "tab2" ELSE "exception"
    /\ exception' = IF exceedance'.ok THEN exception ELSE exceedance'.err
    /\ UNCHANGED <<variant, aqi_vars, clean_vars, uploaded_files, idx, dfs, warnings,
                   prep_vars, selected_years, selected_display_pollutants, metal_vars,
                   app_vars, aggregates, daily_avg,
                   remarks_counts, min_max>>

\* with tabs[2]; the Color column is added for the chart after the tables
\* are shown
AqiStatsTab ==
    /\ pc = "tab2"
    /\ site_in_tab' \in Selections(site_options(df))
    /\ filtered_df' = filtered(df, selected_years, site_in_tab')
    /\ \E res \in {calculate_aqi_and_category(variant, filtered_df')} :
           /\ daily_avg' = res.daily_avg
           /\ remarks_counts' = IF res.daily_avg.ok THEN color_column(res.remarks_counts)
                                ELSE res.remarks_counts
           /\ pc' = IF res.daily_avg.ok THEN "tab3" ELSE "exception"
           /\ exception' = IF res.daily_avg.ok THEN exception ELSE res.daily_avg.err
    /\ UNCHANGED <<variant, aqi_vars, clean_vars, uploaded_files, idx, dfs, warnings,
                   prep_vars, selected_years, selected_display_pollutants, metal_vars,
                   app_vars, aggregates, exceedance,
                   min_max>>

\* with tabs[3]
MinMaxTab ==
    /\ pc = "tab3"
    /\ site_in_tab' \in Selections(site_options(df))
    /\ filtered_df' = filtered(df, selected_years, site_in_tab')
    /\ min_max' = calculate_min_max(variant, filtered_df')
    /\ pc' = IF min_max'.ok THEN "done" ELSE "exception"
    /\ exception' = IF min_max'.ok THEN exception ELSE min_max'.err
    /\ UNCHANGED <<variant, aqi_vars, clean_vars, uploaded_files, idx, dfs, warnings,
                   prep_vars, selected_years, selected_display_pollutants, metal_vars,
                   app_vars, aggregates, exceedance,
                   daily_avg, remarks_counts>>

NextTabs ==
    ReadUpload \/ Cleaned \/ AggregatedMeansTab \/ ExceedancesTab \/ AqiStatsTab
        \/ MinMaxTab

SpecTabs == InitTabs /\ [][NextTabs]_vars

-----------------------------------------------------------------------------
(* Claims about the statistics, checked under SpecTabs *)

\* the readings of filtered_df taken at site s on day d, as row numbers
ReadingsOf(s, d) ==
    {j \in 1..Len(filtered_df.rows) :
        /\ at(filtered_df, filtered_df.rows[j], "site") = s
        /\ at(filtered_df, filtered_df.rows[j], "day") = d}

\* the days of year y on which site s has a reading
DaysOf(y, s) ==
    {at(filtered_df, filtered_df.rows[j], "day") :
        j \in {j \in 1..Len(filtered_df.rows) :
                  /\ at(filtered_df, filtered_df.rows[j], "year") = y
                  /\ at(filtered_df, filtered_df.rows[j], "site") = s}}

\* the sum of column name over the rows J of filtered_df, in 1/Scale^2
RECURSIVE SumOver(_, _)
SumOver(J, name) ==
    IF J = {} THEN 0
    ELSE LET j == CHOOSE x \in J : TRUE
         IN  Units(at(filtered_df, filtered_df.rows[j], name)) + SumOver(J \ {j}, name)

\* the mean of column name over the readings of (s, d) is greater than limit
MeanAbove(s, d, name, limit) ==
    SumOver(ReadingsOf(s, d), name) > limit * Scale * Scale * Cardinality(ReadingsOf(s, d))

MeanEquals(s, d, name, limit) ==
    SumOver(ReadingsOf(s, d), name) = limit * Scale * Scale * Cardinality(ReadingsOf(s, d))

\* some reading of (s, d) is above the limit
ReadingAbove(s, d, name, limit) ==
    \E j \in ReadingsOf(s, d) :
        Units(at(filtered_df, filtered_df.rows[j], name)) > limit * Scale * Scale

ExceedanceShown == pc = "tab2"

\* C11: calculate_exceedances counts, per (year, site), the days whose daily
\* mean is strictly greater than 35 (PM2.5) and 70 (PM10): a day whose mean
\* equals the limit is not counted, and a reading above the limit does not
\* count unless the mean of its day is above it; Total_Records is the number
\* of distinct observed days of the (year, site).
C11_DailyMeanFirst ==
    ExceedanceShown =>
        \A i \in 1..Len(exceedance.rows) :
            LET r == exceedance.rows[i]
                y == at(exceedance, r, "year")
                s == at(exceedance, r, "site")
            IN  /\ at(exceedance, r, "Total_Records") = Num(Cardinality(DaysOf(y, s)))
                /\ at(exceedance, r, "PM25_Exceedance_Count") =
                     Num(Cardinality({d \in DaysOf(y, s) :
                            MeanAbove(s, d, pm25_field(variant), 35)}))
                /\ at(exceedance, r, "PM10_Exceedance_Count") =
                     Num(Cardinality({d \in DaysOf(y, s) : MeanAbove(s, d, "pm10", 70)}))

\* a site and year with a day on the PM2.5 limit, a day with a PM10 reading
\* above the limit and a mean on it, and days above both limits
C11_Witness ==
    /\ ExceedanceShown
    /\ \E i \in 1..Len(exceedance.rows) :
          LET r == exceedance.rows[i]
              y == at(exceedance, r, "year")
              s == at(exceedance, r, "site")
          IN  /\ \E d \in DaysOf(y, s) : MeanEquals(s, d, pm25_field(variant), 35)
              /\ \E d \in DaysOf(y, s) :
                    MeanEquals(s, d, "pm10", 70) /\ ReadingAbove(s, d, "pm10", 70)
              /\ \E d \in DaysOf(y, s) :
                    ReadingAbove(s, d, pm25_field(variant), 35)
                        /\ ~MeanAbove(s, d, pm25_field(variant), 35)
              /\ at(exceedance, r, "PM25_Exceedance_Count").n >= 1
              /\ at(exceedance, r, "PM10_Exceedance_Count").n >= 1
              /\ at(exceedance, r, "PM25_Exceedance_Count").n
                    < at(exceedance, r, "Total_Records").n

\* the (year, site) pairs with a reading in filtered_df
YearSites ==
    {<<at(filtered_df, filtered_df.rows[j], "year"),
       at(filtered_df, filtered_df.rows[j], "site")>> : j \in 1..Len(filtered_df.rows)}

\* cell x is num / den (in 1/Scale, den > 0) rounded to 1 decimal: a whole
\* number of tenths, none of which is nearer to the quotient
RoundedTo1(x, num, den) ==
    /\ IsNum(x)
    /\ Den(x) = 1
    /\ x.n % T(1) = 0
    /\ 2 * (x.n * den - num) <= T(1) * den
    /\ 2 * (num - x.n * den) <= T(1) * den

\* count and percentage of an exceedance row are sound for its total
C12_RowSound(r, count, pct) ==
    LET c == at(exceedance, r, count)
        t == at(exceedance, r, "Total_Records")
        p == at(exceedance, r, pct)
    IN  /\ IsNum(c) /\ IsNum(t) /\ IsNum(p)
        /\ 0 <= c.n /\ c.n <= t.n
        /\ RoundedTo1(p, c.n * 100 * Scale, t.n)
        /\ 0 <= p.n /\ p.n <= 100 * Scale
        /\ (t.n = 10 /\ c.n = 3) => p.n = 30 * Scale

\* C12: every (year, site) with an observed day has exactly one exceedance
\* row; its counts are numbers (0 when no day exceeds), each at most
\* Total_Records, and each percentage is count / Total_Records * 100 rounded
\* to 1 decimal, within [0, 100]; 3 exceeding days of 10 give 30.0.
C12_ExceedanceRows ==
    ExceedanceShown =>
        /\ \A ys \in YearSites :
              Cardinality({i \in 1..Len(exceedance.rows) :
                  /\ at(exceedance, exceedance.rows[i], "year") = ys[1]
                  /\ at(exceedance, exceedance.rows[i], "site") = ys[2]}) = 1
        /\ \A i \in 1..Len(exceedance.rows) :
              /\ <<at(exceedance, exceedance.rows[i], "year"),
                   at(exceedance, exceedance.rows[i], "site")>> \in YearSites
              /\ C12_RowSound(exceedance.rows[i], "PM25_Exceedance_Count",
                              "PM25_Exceedance_Percent")
              /\ C12_RowSound(exceedance.rows[i], "PM10_Exceedance_Count",
                              "PM10_Exceedance_Percent")

\* a site and year with 10 days, 3 of them above the PM2.5 limit and none above
\* the PM10 limit
C12_Witness ==
    /\ ExceedanceShown
    /\ \E i \in 1..Len(exceedance.rows) :
          LET r == exceedance.rows[i]
          IN  /\ at(exceedance, r, "Total_Records") = Num(10)
              /\ at(exceedance, r, "PM25_Exceedance_Count") = Num(3)
              /\ at(exceedance, r, "PM25_Exceedance_Percent") = Num(30 * Scale)
              /\ at(exceedance, r, "PM10_Exceedance_Count") = Num(0)
              /\ at(exceedance, r, "PM10_Exceedance_Percent") = Num(0)

\* the cells of column name, over the rows of table f
ColumnOf(f, name) == {at(f, f.rows[i], name) : i \in 1..Len(f.rows)}

\* C13: no percentage divides by zero: every row of the exceedance table has
\* Total_Records >= 1 and every row of the remark summary has
\* Total_Count_Per_Site_Year >= 1, and every percentage is a number; an empty
\* frame gives empty tables.
C13_NoZeroTotal ==
    /\ ExceedanceShown =>
          /\ exceedance.ok
          /\ \A t \in ColumnOf(exceedance, "Total_Records") : IsNum(t) /\ t.n >= 1
          /\ \A q \in ColumnOf(exceedance, "PM25_Exceedance_Percent")
                        \cup ColumnOf(exceedance, "PM10_Exceedance_Percent") : IsNum(q)
          /\ filtered_df.rows = <<>> => exceedance.rows = <<>>
    /\ pc = "tab3" =>
          /\ remarks_counts.ok
          /\ \A t \in ColumnOf(remarks_counts, "Total_Count_Per_Site_Year") :
                IsNum(t) /\ t.n >= 1
          /\ \A q \in ColumnOf(remarks_counts, "Percent") : IsNum(q)
          /\ filtered_df.rows = <<>> => remarks_counts.rows = <<>>

\* both functions have run on a frame without rows that has all its columns
C13_Witness ==
    /\ pc = "tab3"
    /\ filtered_df.rows = <<>>
    /\ has_col(filtered_df, "year") /\ has_col(filtered_df, pm25_field(variant))
    /\ exceedance.ok /\ exceedance.rows = <<>>
    /\ remarks_counts.ok /\ remarks_counts.rows = <<>>

\* the pollutant columns of an aggregate table
Pollutants == {"corrected_pm25", "pm25", "pm10"}

\* the readings of filtered_df in the group with key g
GroupOf(keys, g) ==
    {j \in 1..Len(filtered_df.rows) : group_key(filtered_df, filtered_df.rows[j], keys) = g}

\* the seven levels and the field each of them groups by
LevelNames ==
    << "Daily Avg", "Monthly Avg", "Quarterly Avg", "Yearly Avg", "Day of Week Avg",
       "Weekday Type Avg", "Season Avg" >>

LevelFields ==
    << "day", "month", "quarter", "year", "dayofweek", "weekday_type", "season" >>

\* the pollutants the tab is to show: those of the page that the frame has,
\* less the ones the user has taken out of the display
ShownPollutants ==
    IF variant = "quant"
    THEN {c \in {"corrected_pm25", "pm10"} : has_col(filtered_df, c)}
    ELSE IF \E i \in 1..Len(selected_display_pollutants) :
                selected_display_pollutants[i] = "All"
    THEN {c \in {"pm25", "pm10"} : has_col(filtered_df, c)}
    ELSE {selected_display_pollutants[i] : i \in 1..Len(selected_display_pollutants)}

\* table t has exactly one row per group of filtered_df under keys, each
\* holding the rounded mean of the group for every pollutant of the table
C14_TableSound(t, keys) ==
    /\ \A i \in 1..Len(keys) : has_col(t, keys[i])
    /\ \A i, j \in 1..Len(t.rows) :
          group_key(t, t.rows[i], keys) = group_key(t, t.rows[j], keys) => i = j
    /\ {group_key(t, t.rows[i], keys) : i \in 1..Len(t.rows)}
          = {group_key(filtered_df, filtered_df.rows[j], keys) :
                j \in 1..Len(filtered_df.rows)}
    /\ \A i \in 1..Len(t.rows) :
          \A c \in {t.cols[x] : x \in 1..Len(t.cols)} \cap Pollutants :
              LET J == GroupOf(keys, group_key(t, t.rows[i], keys))
              IN  RoundedTo1(at(t, t.rows[i], c), SumOver(J, c),
                             Cardinality(J) * Scale)

\* the claim at level l: a table of the level holds every pollutant shown,
\* and every table of the level has one row per (field of the level, site)
C14_Level(l) ==
    /\ \A c \in ShownPollutants :
          \E a \in 1..Len(aggregates) :
              aggregates[a].level = LevelNames[l] /\ has_col(aggregates[a].table, c)
    /\ \A a \in 1..Len(aggregates) :
          aggregates[a].level = LevelNames[l] =>
              C14_TableSound(aggregates[a].table, <<LevelFields[l], "site">>)

\* C14: for each of the seven levels and each pollutant the aggregate table
\* has exactly one row per distinct (group key, site) of the filtered frame,
\* holding the mean of the group's readings rounded to 1 decimal, also where
\* the tables of the pollutants are outer-merged on the group keys.
C14_OneRowPerGroup ==
    pc = "tab1" => \A l \in 1..Len(LevelFields) : C14_Level(l)

\* what does hold: the claim at the six other levels on every page and at
\* the season level on the Quant AQ and AirQo pages, and on the Gravimetric
\* page one row per (year, season, site)
C14_ExceptGravimetricSeason ==
    pc = "tab1" =>
        /\ \A l \in 1..Len(LevelFields) :
              (variant = "grav" /\ LevelFields[l] = "season") \/ C14_Level(l)
        /\ variant = "grav" =>
              \A a \in 1..Len(aggregates) :
                  aggregates[a].level = "Season Avg" =>
                      C14_TableSound(aggregates[a].table, <<"year", "season", "site">>)

\* the daily mean of column name at site s on day d, as the fraction
\* <<sum, count>> of the sum in 1/Scale^2 and the number of readings
DailyMean(s, d, name) ==
    <<SumOver(ReadingsOf(s, d), name), Cardinality(ReadingsOf(s, d))>>

\* the days of filtered_df that fall in the group of min_max row r
MinMaxDays(r) ==
    LET keys == SelectSeq(min_max.cols, LAMBDA c : c \in {"year", "site", "month"})
    IN  {at(filtered_df, filtered_df.rows[j], "day") :
            j \in GroupOf(keys, group_key(min_max, r, keys))}

\* row r reports the largest and the smallest daily mean of column name
C15_Extrema(r, name, max_col, min_col) ==
    LET s == at(min_max, r, "site")
        ms == {DailyMean(s, d, name) : d \in MinMaxDays(r)}
    IN  /\ \E m \in ms :
              /\ \A x \in ms : x[1] * m[2] <= m[1] * x[2]
              /\ RoundedTo1(at(min_max, r, max_col), m[1], m[2] * Scale)
        /\ \E m \in ms :
              /\ \A x \in ms : x[1] * m[2] >= m[1] * x[2]
              /\ RoundedTo1(at(min_max, r, min_col), m[1], m[2] * Scale)
        /\ at(min_max, r, min_col).n <= at(min_max, r, max_col).n

\* C15: in every variant calculate_min_max returns without error, with one row
\* per (year, site, month) (per (year, site) for Gravimetric) holding the
\* maximum and the minimum of the daily means, rounded to 1 decimal, for PM2.5
\* and for PM10, and min <= max in every row.
C15_MinMaxOfDailyMeans ==
    (pc \in {"done", "exception"} /\ min_max # Unset) =>
        /\ min_max.ok
        /\ \A i \in 1..Len(min_max.rows) :
              /\ C15_Extrema(min_max.rows[i], pm25_field(variant),
                             "daily_avg_pm25_max", "daily_avg_pm25_min")
              /\ C15_Extrema(min_max.rows[i], "pm10",
                             "daily_avg_pm10_max", "daily_avg_pm10_min")

\* the daily rows of site s in year y with remark m, as rows of daily_avg
DailyRows(s, y, m) ==
    {i \in 1..Len(daily_avg.rows) :
        /\ at(daily_avg, daily_avg.rows[i], "site") = s
        /\ at(daily_avg, daily_avg.rows[i], "year") = y
        /\ at(daily_avg, daily_avg.rows[i], "AQI_Remark") = m}

\* the rows of the remark summary for site s and year y
SummaryRows(s, y) ==
    {i \in 1..Len(remarks_counts.rows) :
        /\ at(remarks_counts, remarks_counts.rows[i], "site") = s
        /\ at(remarks_counts, remarks_counts.rows[i], "year") = y}

RECURSIVE SumCounts(_)
SumCounts(I) ==
    IF I = {} THEN 0
    ELSE LET i == CHOOSE x \in I : TRUE
         IN  at(remarks_counts, remarks_counts.rows[i], "Count").n + SumCounts(I \ {i})

\* C18: in the remark summary the Count values of a (site, year) sum to its
\* Total_Count_Per_Site_Year, which is the number of daily rows of that site
\* and year, 'Unknown' days included; every Percent is
\* Count / Total_Count_Per_Site_Year * 100 rounded to 1 decimal.
C18_CountsSumToTotal ==
    pc = "tab3" =>
        /\ Len(daily_avg.rows) = Cardinality(
              {<<at(filtered_df, filtered_df.rows[j], "site"),
                 at(filtered_df, filtered_df.rows[j], "day")>> :
                    j \in 1..Len(filtered_df.rows)})
        /\ \A i \in 1..Len(remarks_counts.rows) :
              LET r == remarks_counts.rows[i]
                  s == at(remarks_counts, r, "site")
                  y == at(remarks_counts, r, "year")
                  total == at(remarks_counts, r, "Total_Count_Per_Site_Year")
                  count == at(remarks_counts, r, "Count")
              IN  /\ count.n = Cardinality(DailyRows(s, y, at(remarks_counts, r, "AQI_Remark")))
                  /\ total.n = SumCounts(SummaryRows(s, y))
                  /\ total.n = Cardinality(DaysOf(y, s))
                  /\ RoundedTo1(at(remarks_counts, r, "Percent"), count.n * 100 * Scale,
                                total.n)
        /\ \A i \in 1..Len(daily_avg.rows) :
              \E j \in 1..Len(remarks_counts.rows) :
                  /\ \A c \in {"site", "year", "AQI_Remark"} :
                        at(remarks_counts, remarks_counts.rows[j], c)
                            = at(daily_avg, daily_avg.rows[i], c)

\* a site and year of 20 days, one of them without an AQI
C18_Witness ==
    /\ pc = "tab3"
    /\ \E i \in 1..Len(remarks_counts.rows) :
          LET r == remarks_counts.rows[i]
          IN  /\ at(remarks_counts, r, "AQI_Remark") = Str("Unknown")
              /\ at(remarks_counts, r, "Count") = Num(1)
              /\ at(remarks_counts, r, "Total_Count_Per_Site_Year") = Num(QuantMinDays)
              /\ at(remarks_counts, r, "Percent") = Num(5 * Scale)
    /\ \E i \in 1..Len(daily_avg.rows) : at(daily_avg, daily_avg.rows[i], "AQI") = NaN

\* the PM2.5 input the claim names for the page
C19_Input == IF variant = "quant" THEN "corrected_pm25" ELSE "pm25"

C19_Other == IF variant = "quant" THEN "pm25" ELSE "corrected_pm25"

\* the number of days of (y, s) whose daily mean of column name is above 35
C19_DaysAbove(y, s, name) ==
    Cardinality({d \in DaysOf(y, s) : MeanAbove(s, d, name, 35)})

\* C19: every cleaned Quant AQ row carries
\* corrected_pm25 = 0.94*pm25 - 0.34*temp - 0.08*rh + 19.82 of its own
\* values; the aggregates, the exceedance count and the AQI of the Quant AQ
\* page are computed from corrected_pm25, those of the AirQo and Gravimetric
\* pages from raw pm25.
C19_CorrectedInput ==
    /\ (pc = "cleaned" /\ in_dfs) =>
          IF variant = "quant"
          THEN /\ has_col(df, "corrected_pm25")
               /\ \A j \in 1..Len(df.rows) :
                     at(df, df.rows[j], "corrected_pm25").n * Scale
                         = (94 * at(df, df.rows[j], "pm25").n
                              - 34 * at(df, df.rows[j], "temp").n
                              - 8 * at(df, df.rows[j], "rh").n
                              + 1982 * Scale)
                           * Den(at(df, df.rows[j], "corrected_pm25"))
          ELSE ~has_col(df, "corrected_pm25")
    /\ pc = "tab1" =>
          /\ (variant = "quant" \/ "pm25" \in ShownPollutants) =>
                \E a \in 1..Len(aggregates) : has_col(aggregates[a].table, C19_Input)
          /\ \A a \in 1..Len(aggregates) :
                LET t == aggregates[a].table
                IN  /\ ~has_col(t, C19_Other)
                    /\ (has_col(t, C19_Input) /\ has_col(t, "day")) =>
                          \A i \in 1..Len(t.rows) :
                              LET J == ReadingsOf(at(t, t.rows[i], "site"),
                                                  at(t, t.rows[i], "day"))
                              IN  RoundedTo1(at(t, t.rows[i], C19_Input),
                                             SumOver(J, C19_Input),
                                             Cardinality(J) * Scale)
    /\ pc = "tab2" =>
          \A i \in 1..Len(exceedance.rows) :
              at(exceedance, exceedance.rows[i], "PM25_Exceedance_Count")
                  = Num(C19_DaysAbove(at(exceedance, exceedance.rows[i], "year"),
                                      at(exceedance, exceedance.rows[i], "site"),
                                      C19_Input))
    /\ pc = "tab3" =>
          /\ has_col(daily_avg, C19_Input)
          /\ ~has_col(daily_avg, C19_Other)
          /\ \A i \in 1..Len(daily_avg.rows) :
                LET r == daily_avg.rows[i]
                    J == ReadingsOf(at(daily_avg, r, "site"), at(daily_avg, r, "day"))
                IN  /\ at(daily_avg, r, C19_Input).n * Scale * Cardinality(J)
                          = SumOver(J, C19_Input) * Den(at(daily_avg, r, C19_Input))
                    /\ at(daily_avg, r, "AQI")
                          = calculate_aqi(variant, at(daily_avg, r, C19_Input))

\* the (season, site) pairs of a frame
C25_SeasonSites(f) ==
    {<<at(f, f.rows[j], "season"), at(f, f.rows[j], "site")>> : j \in 1..Len(f.rows)}

\* C25: at the season level the aggregate of every variant is keyed by
\* (season, site): each table has one row per distinct (season, site) pair of
\* the filtered frame.
C25_SeasonKeyedBySite ==
    pc = "tab1" =>
        \A a \in 1..Len(aggregates) :
            aggregates[a].level = "Season Avg" =>
                /\ C25_SeasonSites(aggregates[a].table) = C25_SeasonSites(filtered_df)
                /\ Len(aggregates[a].table.rows)
                      = Cardinality(C25_SeasonSites(filtered_df))

-----------------------------------------------------------------------------
(* File preparation: parse_dates, then standardize_columns, on small frames *)
(* under several header rows and timestamp columns                          *)

\* header rows: canonical names, aliases in several spellings, and a file
\* without a timestamp column
HeaderRows ==
    { <<"datetime", "pm25", "pm10", "site">>,
      <<"Timestamp", "PM2.5", "PM10", "Station">>,
      <<"Date", "pm_2_5", "pm_10", "Location">>,
      <<"date", "pm25_avg", "pm10", " Site ">>,
      <<"Datetime", "pm2.5", "PM10", "site", "temp", "rh">>,
      <<"datetime", "PM2.5", "pm25_avg", "pm10", "site">>,
      <<"pm25", "pm10", "site">> }

\* which rows of the file hold a timestamp that is no date at all
TimePatterns == {"good", "one_bad", "all_bad"}

\* the text format of the timestamps
TimeFormats == {"iso", "dby"}

prep_cell(col, j, pattern, fmt) ==
    CASE col = "time" ->
            IF pattern = "all_bad" \/ (pattern = "one_bad" /\ j = 2)
            THEN Text("bad", 0, 0, 0, 0)
            ELSE Text(fmt, 2023, 1, j, 0)
      [] col = "site" -> Str("A")
      [] OTHER -> Num(T(100 + 5 * j))

\* pd.read_csv(file): three rows under the given header row
prep_file(cols, pattern, fmt) ==
    Frame(cols, [j \in 1..3 |->
                    [i \in 1..Len(cols) |-> prep_cell(meaning(cols[i]), j, pattern, fmt)]])

InitPrep ==
    /\ variant \in Variants
    /\ pc = "read"
    /\ \E cols \in HeaderRows : \E pattern \in TimePatterns : \E fmt \in TimeFormats :
          upload = prep_file(cols, pattern, fmt)
    /\ parsed = Unset
    /\ standardized = Unset
    /\ lowered = Unset
    /\ IdleAqi /\ IdleClean /\ IdleUpload /\ IdleTabs /\ IdleMetal /\ IdleApp

\* df = parse_dates(df)
ParseDates ==
    /\ pc = "read"
    /\ parsed' = parse_dates(variant, upload)
    /\ pc' = "parsed"
    /\ UNCHANGED <<variant, upload, standardized, lowered, aqi_vars, clean_vars, upload_vars,
                   tab_inputs, metal_vars, app_vars, tab_vars>>

\* df = standardize_columns(df)
StandardizeColumns ==
    /\ pc = "parsed"
    /\ standardized' = standardize_columns(variant, parsed)
    /\ pc' = "standardized"
    /\ UNCHANGED <<variant, upload, parsed, lowered, aqi_vars, clean_vars, upload_vars,
                   tab_inputs, metal_vars, app_vars, tab_vars>>

\* cleaned(df), its first statement
RenameLower ==
    /\ pc = "standardized"
    /\ lowered' = rename_lower(standardized)
    /\ pc' = "lowered"
    /\ UNCHANGED <<variant, upload, parsed, standardized, aqi_vars, clean_vars,
                   upload_vars, tab_inputs, metal_vars, app_vars, tab_vars>>

NextPrep == ParseDates \/ StandardizeColumns \/ RenameLower

SpecPrep == InitPrep /\ [][NextPrep]_vars

-----------------------------------------------------------------------------
(* Claims about file preparation, checked under SpecPrep *)

\* the canonical name of a header, by the alias sets of the contract
C16_Canonical(h) ==
    LET l == lower_strip(h)
    IN  IF l \in {"pm25", "pm2.5", "pm_2_5", "pm25_avg"} THEN "pm25"
        ELSE IF l \in {"pm10", "pm_10"} THEN "pm10"
        ELSE IF l \in {"station", "location", "site"} THEN "site"
        ELSE h

\* C16: in every variant standardize_columns renames each header that matches
\* an alias set, case- and whitespace-insensitively, to its canonical name
\* (PM2.5, pm_2_5, pm25_avg, pm2.5 -> pm25; PM10, pm_10 -> pm10; station,
\* location -> site), leaves every other header unchanged, and never raises.
C16_AliasesRenamed ==
    pc = "standardized" =>
        /\ standardized.ok
        /\ standardized.rows = parsed.rows
        /\ Len(standardized.cols) = Len(parsed.cols)
        /\ \A i \in 1..Len(parsed.cols) :
              standardized.cols[i] = C16_Canonical(parsed.cols[i])

\* the columns parse_dates looks at: named after a date (or a time), as
\* positions of the uploaded frame
DateCols ==
    {i \in 1..Len(upload.cols) :
        has_date(upload.cols[i]) \/ (variant # "grav" /\ has_time(upload.cols[i]))}

\* the rows whose cell in column i parses as a timestamp
ParsedRows(i) ==
    {j \in 1..Len(upload.rows) :
        ~isna(IF variant = "grav" THEN to_datetime_dby(upload.rows[j][i])
              ELSE to_datetime(upload.rows[j][i]))}

\* C17: parse_dates fails soft: when a date/time-named column parses, the
\* rows whose timestamp fails to parse are dropped and the other rows are
\* kept with their other columns untouched; when no date/time-named column
\* holds a parseable value, or there is no such column, the frame is
\* returned unchanged: same rows, no canonical timestamp column added.
C17_FailsSoft ==
    pc = "parsed" =>
        /\ parsed.ok
        /\ IF \A i \in DateCols : ParsedRows(i) = {}
           THEN parsed = upload
           ELSE LET i == Min({x \in DateCols : ParsedRows(x) # {}})
                    kept == SortedSeq(ParsedRows(i))
                IN  /\ Len(parsed.rows) = Len(kept)
                    /\ \A k \in 1..Len(kept) :
                          \A c \in (1..Len(upload.cols)) \ {i} :
                              /\ parsed.cols[c] = upload.cols[c]
                              /\ parsed.rows[k][c] = upload.rows[kept[k]][c]

\* C29: after parse_dates, standardize_columns and the lower-casing at the
\* start of cleaned no two columns of the frame carry the same name, whatever
\* the headers of the file.
C29_ColumnNamesUnique ==
    pc = "lowered" =>
        \A i, j \in 1..Len(lowered.cols) : lowered.cols[i] = lowered.cols[j] => i = j

-----------------------------------------------------------------------------
(* The monitoring app (pm25_monitoring_app/app.py): records are appended to  *)
(* the 'Observations' sheet and START and STOP records are merged.  Of the   *)
(* sixteen columns of the sheet the model keeps the entry type, the two      *)
(* merge keys, the elapsed time and the submission time; the other columns   *)
(* travel through the merge as the elapsed time does.                        *)

MaxRecords == 3

SamplerIds == {"ID1", "ID2"}
SamplerSites == {"Kaneshie", "Tema"}
ElapsedTimes == {0, 30}

\* the seconds at which a submission can take its time stamp.  Two
\* submissions in one second get the same stamp, and a row stamped first can
\* be appended last when two sessions submit together.
SubmitSeconds == {1, 2}

\* the fields of a row the merge reads; the other form fields ride along
observation_cols ==
    <<"Entry Type", "ID", "Site", "Date", "Elapsed Time (min)", "Submitted At">>

\* datetime.now().strftime("%Y-%m-%d %H:%M:%S") at second s of the day
strftime_seconds(s) == [k |-> "text", fmt |-> "iso", y |-> 2025, m |-> 1, d |-> 5, h |-> 0, s |-> s]

\* pd.to_datetime of a column of such texts
to_datetime_seconds(c) ==
    IF c.k = "text" /\ c.fmt = "iso"
    THEN [k |-> "ts", y |-> c.y, m |-> c.m, d |-> c.d, h |-> c.h,
          s |-> IF "s" \in DOMAIN c THEN c.s ELSE 0]
    ELSE NaN

\* add_data(row) at second now: the row gets the time stamp and is appended
add_data(sheet, row, now) == Append(sheet, Append(row, strftime_seconds(now)))

\* the row a submit button builds
form_row(type, id, site, elapsed) ==
    <<Str(type), Str(id), Str(site), Text("iso", 2025, 1, 5, 0), Num(elapsed)>>

\* load_data_from_sheet(sheet): get_all_records() of a sheet without records
\* gives a frame without columns, and df["Submitted At"] raises
load_data_from_sheet(sheet) ==
    IF sheet = <<>> THEN Raise("KeyError: 'Submitted At'")
    ELSE Frame(observation_cols,
               [i \in 1..Len(sheet) |->
                   [j \in 1..Len(sheet[i]) |->
                       IF observation_cols[j] \in {"Submitted At", "Date"}
                       THEN to_datetime_seconds(sheet[i][j]) ELSE sheet[i][j]]])

merge_keys == <<"ID", "Site">>

\* df.rename(columns=lambda x: f"{x}_Start" if x not in merge_keys else x)
rename_suffix(f, suffix) ==
    Frame([i \in 1..Len(f.cols) |->
              IF \E k \in 1..Len(merge_keys) : merge_keys[k] = f.cols[i]
              THEN f.cols[i] ELSE f.cols[i] \o suffix],
          f.rows)

\* pd.merge(left, right, on=keys, how="inner"): every left row, in order, once
\* per right row with the same keys
merge_inner(left, right, keys) ==
    LET vp == value_positions(right, keys)
        joined(l) ==
            LET ms == group_rows(right, keys, group_key(left, l, keys))
            IN  [m \in 1..Len(ms) |-> l \o pick(ms[m], vp)]
    IN  Frame(left.cols \o pick(right.cols, vp),
              Flatten([i \in 1..Len(left.rows) |-> joined(left.rows[i])]))

\* merged_df["Elapsed Time Diff (min)"] = ..._Stop - ..._Start
elapsed_diff(merged) ==
    IF has_col(merged, "Elapsed Time (min)_Start") /\ has_col(merged, "Elapsed Time (min)_Stop")
    THEN Frame(Append(merged.cols, "Elapsed Time Diff (min)"),
               [i \in 1..Len(merged.rows) |->
                   Append(merged.rows[i],
                          Num(at(merged, merged.rows[i], "Elapsed Time (min)_Stop").n
                                - at(merged, merged.rows[i], "Elapsed Time (min)_Start").n))])
    ELSE merged

\* df[df["Entry Type"] == type].copy()
entry_rows(f, type) ==
    Frame(f.cols, SelectSeq(f.rows, LAMBDA r : at(f, r, "Entry Type") = Str(type)))

\* merge_start_stop(df); a frame without the column "Entry Type" raises
merge_start_stop(f) ==
    IF ~f.ok THEN f
    ELSE IF ~has_col(f, "Entry Type") THEN Raise("KeyError: 'Entry Type'")
    ELSE elapsed_diff(merge_inner(rename_suffix(entry_rows(f, "START"), "_Start"),
                                  rename_suffix(entry_rows(f, "STOP"), "_Stop"),
                                  merge_keys))

\* The page itself never reaches its merge: every run ends at line 203,
\* df = read_data(), a name the module does not bind.  merge_start_stop is
\* therefore checked as a function: the sheet grows by submissions, and the
\* function is called on the frame load_data_from_sheet makes of the sheet.
InitMerge ==
    /\ variant = "app"
    /\ pc = "form"
    /\ observations = <<>>
    /\ merged_df = Unset
    /\ worksheets = {} /\ sessions = <<>> /\ write_log = <<>>
    /\ IdleAqi /\ IdleClean /\ IdleUpload /\ IdlePrep /\ IdleTabs /\ IdleMetal

\* 'Submit Start Day Data' / 'Submit Stop Day Data': add_data(row), after which
\* the run goes on to line 203 and ends there
AddData ==
    /\ pc = "form"
    /\ Len(observations) < MaxRecords
    /\ \E type \in {"START", "STOP"}, id \in SamplerIds, site \in SamplerSites,
          elapsed \in ElapsedTimes, now \in SubmitSeconds :
          observations' = add_data(observations, form_row(type, id, site, elapsed), now)
    /\ exception' = "NameError: name 'read_data' is not defined"
    /\ UNCHANGED <<variant, pc, merged_df, worksheets, sessions, write_log, aqi_vars,
                   clean_vars, uploaded_files, idx, dfs, warnings, prep_vars, tab_inputs,
                   tab_vars, metal_vars>>

\* merge_start_stop(df) called on the records of the sheet
MergeStartStop ==
    /\ pc = "form"
    /\ observations # <<>>
    /\ merged_df' = merge_start_stop(load_data_from_sheet(observations))
    /\ pc' = "merged"
    /\ UNCHANGED <<variant, observations, worksheets, sessions, write_log, aqi_vars,
                   clean_vars, upload_vars, prep_vars, tab_inputs, tab_vars, metal_vars>>

NextMerge == AddData \/ MergeStartStop

SpecMerge == InitMerge /\ [][NextMerge]_vars

\* the records of the sheet of the given type with the keys of a merged row
C30_Sources(r, type) ==
    {i \in 1..Len(observations) :
        /\ observations[i][1] = Str(type)
        /\ observations[i][2] = at(merged_df, r, "ID")
        /\ observations[i][3] = at(merged_df, r, "Site")}

\* the merged rows with the keys of the i-th record of the sheet
C30_RowsOf(i) ==
    {j \in 1..Len(merged_df.rows) :
        /\ at(merged_df, merged_df.rows[j], "ID") = observations[i][2]
        /\ at(merged_df, merged_df.rows[j], "Site") = observations[i][3]}

\* the records of the sheet of the given type with the keys of the i-th one
C30_Same(i, type) ==
    {h \in 1..Len(observations) :
        /\ observations[h][1] = Str(type)
        /\ observations[h][2] = observations[i][2]
        /\ observations[h][3] = observations[i][3]}

\* C30: merge_start_stop pairs records one to one: a merged row exists for an
\* (ID, Site) only when a START and a STOP record with those keys exist, and
\* no START record and no STOP record appears in more than one merged row, so
\* an (ID, Site) has no more merged rows than START records and no more than
\* STOP records.
C30_OneToOne ==
    (pc = "merged" /\ merged_df.ok) =>
        /\ \A j \in 1..Len(merged_df.rows) :
              /\ C30_Sources(merged_df.rows[j], "START") # {}
              /\ C30_Sources(merged_df.rows[j], "STOP") # {}
        /\ \A i \in 1..Len(observations) :
              /\ Cardinality(C30_RowsOf(i)) <= Cardinality(C30_Same(i, "START"))
              /\ Cardinality(C30_RowsOf(i)) <= Cardinality(C30_Same(i, "STOP"))

-----------------------------------------------------------------------------
(* save_merged_data_to_sheet run by two sessions on one spreadsheet.  Every  *)
(* gspread call is one request to the spreadsheet and one step of a session. *)

MAIN_SHEET == "Observations"
MERGED_SHEET == "Merged Records"

Sessions == {"s1", "s2"}

\* the sheet at the time of the later render: two START/STOP pairs
SavedObservations ==
    add_data(add_data(add_data(add_data(<<>>,
        form_row("START", "ID1", "Kaneshie", 0), 1),
        form_row("STOP", "ID1", "Kaneshie", 30), 2),
        form_row("START", "ID2", "Tema", 0), 3),
        form_row("STOP", "ID2", "Tema", 30), 4)

\* the records a session saw when it rendered: the first pair, or both
RenderedRecords == {2, 4}

\* [df.columns.tolist()] + df.values.tolist()
sheet_values(f) == <<f.cols>> \o f.rows

\* [ws.title for ws in spreadsheet.worksheets()]
worksheet_titles(sheets) == {ws.title : ws \in sheets}

\* the worksheet with the given title (one at most: the spreadsheet refuses a
\* second sheet of a title)
worksheet_by_title(sheets, title) == CHOOSE ws \in sheets : ws.title = title

\* values_update from cell A1: the cells written replace what was there, the
\* rows below the written block stay
write_values(old, new) ==
    [i \in 1..(IF Len(old) > Len(new) THEN Len(old) ELSE Len(new)) |->
        IF i <= Len(new) THEN new[i] ELSE old[i]]

\* the frame a caller hands to save_merged_data_to_sheet: the merge of what
\* load_data_from_sheet returns, with parsed dates, or of the records as the
\* sheet gives them, with the dates as text
saved_frame(n, dates) ==
    merge_start_stop(IF dates = "parsed"
                     THEN load_data_from_sheet(SubSeq(SavedObservations, 1, n))
                     ELSE Frame(observation_cols, SubSeq(SavedObservations, 1, n)))

\* json.dumps of the request body: a Timestamp is not JSON serializable
json_serializable(values) ==
    \A i \in 2..Len(values) : \A j \in 1..Len(values[i]) : values[i][j].k # "ts"

\* save_merged_data_to_sheet is called nowhere but after line 203, which no
\* run passes: the two calls are checked as calls of the function.
InitSave ==
    /\ variant = "app"
    /\ pc = "save"
    /\ observations = SavedObservations
    /\ merged_df = Unset
    /\ \E before \in {{}, {[id |-> "old", title |-> MERGED_SHEET,
                            rows |-> sheet_values(saved_frame(2, "text"))]}} :
          worksheets = {[id |-> "main", title |-> MAIN_SHEET, rows |-> SavedObservations]}
                          \cup before
    /\ \E n \in [Sessions -> RenderedRecords], dates \in {"parsed", "text"} :
          sessions = [s \in Sessions |->
                        [pc |-> "list", titles |-> {}, sheet |-> "none", err |-> "",
                         df |-> saved_frame(n[s], dates)]]
    /\ write_log = <<>>
    /\ IdleAqi /\ IdleClean /\ IdleUpload /\ IdlePrep /\ IdleTabs /\ IdleMetal

save_unchanged ==
    UNCHANGED <<variant, pc, observations, merged_df, aqi_vars, clean_vars, upload_vars,
                prep_vars, tab_inputs, tab_vars, metal_vars>>

\* if sheet_name in [ws.title for ws in spreadsheet.worksheets()]:
ListWorksheets(s) ==
    /\ sessions[s].pc = "list"
    /\ sessions' = [sessions EXCEPT
          ![s].titles = worksheet_titles(worksheets),
          ![s].pc = IF MERGED_SHEET \in worksheet_titles(worksheets)
                    THEN "lookup" ELSE "add"]
    /\ UNCHANGED <<worksheets, write_log>>
    /\ save_unchanged

\* sheet = spreadsheet.worksheet(sheet_name): WorksheetNotFound when no sheet
\* has the title any more
GetWorksheet(s) ==
    /\ sessions[s].pc = "lookup"
    /\ sessions' = [sessions EXCEPT ![s] =
          IF MERGED_SHEET \in worksheet_titles(worksheets)
          THEN [@ EXCEPT !.sheet = worksheet_by_title(worksheets, MERGED_SHEET).id,
                         !.pc = "delete"]
          ELSE [@ EXCEPT !.err = "WorksheetNotFound", !.pc = "failed"]]
    /\ UNCHANGED <<worksheets, write_log>>
    /\ save_unchanged

\* spreadsheet.del_worksheet(sheet): the request names the sheet by its id
DelWorksheet(s) ==
    /\ sessions[s].pc = "delete"
    /\ IF \E ws \in worksheets : ws.id = sessions[s].sheet
       THEN /\ worksheets' = {ws \in worksheets : ws.id # sessions[s].sheet}
            /\ sessions' = [sessions EXCEPT ![s].pc = "add"]
       ELSE /\ worksheets' = worksheets
            /\ sessions' = [sessions EXCEPT ![s].err = "APIError", ![s].pc = "failed"]
    /\ UNCHANGED write_log
    /\ save_unchanged

\* sheet = spreadsheet.add_worksheet(title=sheet_name, rows="1000", cols="50")
AddWorksheet(s) ==
    /\ sessions[s].pc = "add"
    /\ IF MERGED_SHEET \in worksheet_titles(worksheets)
       THEN /\ worksheets' = worksheets
            /\ sessions' = [sessions EXCEPT ![s].err = "APIError", ![s].pc = "failed"]
       ELSE /\ worksheets' = worksheets \cup {[id |-> s, title |-> MERGED_SHEET, rows |-> <<>>]}
            /\ sessions' = [sessions EXCEPT ![s].sheet = s, ![s].pc = "update"]
    /\ UNCHANGED write_log
    /\ save_unchanged

\* sheet.update([df.columns.tolist()] + df.values.tolist()): the values are
\* serialized, then the request names the range by the title of the sheet
UpdateWorksheet(s) ==
    /\ sessions[s].pc = "update"
    /\ IF ~json_serializable(sheet_values(sessions[s].df))
       THEN /\ worksheets' = worksheets
            /\ sessions' = [sessions EXCEPT
                  ![s].err = "TypeError: Object of type Timestamp is not JSON serializable",
                  ![s].pc = "failed"]
            /\ write_log' = write_log
       ELSE IF MERGED_SHEET \in worksheet_titles(worksheets)
       THEN /\ worksheets' =
                 {IF ws.title = MERGED_SHEET
                  THEN [ws EXCEPT !.rows = write_values(@, sheet_values(sessions[s].df))]
                  ELSE ws : ws \in worksheets}
            /\ sessions' = [sessions EXCEPT ![s].pc = "done"]
            /\ write_log' = Append(write_log, s)
       ELSE /\ worksheets' = worksheets
            /\ sessions' = [sessions EXCEPT ![s].err = "APIError", ![s].pc = "failed"]
            /\ write_log' = write_log
    /\ save_unchanged

NextSave ==
    \E s \in Sessions :
        \/ ListWorksheets(s)
        \/ GetWorksheet(s)
        \/ DelWorksheet(s)
        \/ AddWorksheet(s)
        \/ UpdateWorksheet(s)

SpecSave == InitSave /\ [][NextSave]_vars

\* the 'Merged Records' sheets of the spreadsheet
C23_MergedSheets == {ws \in worksheets : ws.title = MERGED_SHEET}

\* C23: when two sessions run save_merged_data_to_sheet on one spreadsheet at
\* the same time, under every interleaving of their requests both calls
\* complete without error and the spreadsheet ends with exactly one 'Merged
\* Records' sheet holding the complete content of the writer that wrote last.
C23_LastWriterWins ==
    /\ \A s \in Sessions : sessions[s].pc # "failed"
    /\ (\A s \in Sessions : sessions[s].pc = "done") =>
          /\ Cardinality(C23_MergedSheets) = 1
          /\ \A ws \in C23_MergedSheets :
                ws.rows = sheet_values(sessions[write_log[Len(write_log)]].df)

-----------------------------------------------------------------------------
(* The heavy-metal page (6_Heavy_Metal.py): upload loop and tabs *)

metal_columns == <<"cd", "cr", "hg", "al", "as", "mn", "pb">>

metal_required_columns ==
    <<"date", "site", "id">> \o metal_columns
        \o SeqMap(LAMBDA m : m \o "_error", metal_columns)

MetalFileNames == <<"a.csv", "b.csv", "c.csv">>
MetalSites == {"Kaneshie", "Tema"}

\* a file with every required column, one without the pb column, one without
\* any content, one whose dates carry two different UTC offsets
MetalKinds == {"ok", "missing", "empty", "mixed_tz"}

MetalParams == [kind : MetalKinds, site : MetalSites]

\* a timestamp text with a UTC offset, and the value it parses to
TextTz(y, m, d, tz) == [k |-> "text_tz", y |-> y, m |-> m, d |-> d, h |-> 0, tz |-> tz]
TsTz(y, m, d, h, tz) == [k |-> "ts_tz", y |-> y, m |-> m, d |-> d, h |-> h, tz |-> tz]

\* the header row of a file: mixed case, a padded name and a column the page
\* does not ask for
metal_header(p) ==
    <<"Date", " Site ", "id">>
        \o (IF p.kind = "missing"
            THEN SelectSeq(metal_columns, LAMBDA m : m # "pb") ELSE metal_columns)
        \o SeqMap(LAMBDA m : m \o "_error", metal_columns) \o <<"notes">>

metal_row(p, date, site, v) ==
    <<date, Str(site), Str("F1")>>
        \o [i \in 1..(Len(metal_header(p)) - 4) |-> Num(v)] \o <<Str("")>>

\* two sites on two days in a file of its own site and the other one; the
\* third row has no usable date
metal_rows(p) ==
    << metal_row(p, IF p.kind = "mixed_tz" THEN TextTz(2023, 1, 5, "+00:00")
                    ELSE Text("dby", 2023, 1, 5, 0), p.site, T(12)),
       metal_row(p, IF p.kind = "mixed_tz" THEN TextTz(2023, 1, 6, "+01:00")
                    ELSE Text("dby", 2023, 1, 6, 0), "Accra", T(7)),
       metal_row(p, Str("n/a"), p.site, T(3)) >>

\* pd.read_csv(uploaded_file): EmptyDataError for a file without content
read_csv(p) ==
    IF p.kind = "empty"
    THEN Raise("EmptyDataError: No columns to parse from file")
    ELSE Frame(metal_header(p), metal_rows(p))

\* df.columns = df.columns.str.strip().str.lower()
lower_columns(f) == Frame(SeqMap(lower_strip, f.cols), f.rows)

\* set(required_columns) - set(df.columns)
missing_required(f) == {c \in {metal_required_columns[i] : i \in 1..Len(metal_required_columns)} :
                          ~has_col(f, c)}

\* df[required_columns].copy()
select_required(f) ==
    take(f, [i \in 1..Len(metal_required_columns) |-> col_idx(f, metal_required_columns[i])])

\* pd.to_datetime(df['date'], dayfirst=True, errors='coerce') on one cell
to_datetime_dayfirst(c) ==
    IF c.k = "text_tz" THEN TsTz(c.y, c.m, c.d, c.h, c.tz) ELSE to_datetime(c)

\* the UTC offsets in the parsed column; a column with more than one comes back
\* with dtype object
date_offsets(f) ==
    {IF at(f, f.rows[j], "date").k = "ts_tz" THEN at(f, f.rows[j], "date").tz ELSE "naive" :
        j \in {i \in 1..Len(f.rows) : ~isna(at(f, f.rows[i], "date"))}}

\* df['date'].dt.tz_localize(None) on one cell
tz_localize_none(c) == Ts(c.y, c.m, c.d, c.h)

month_abbr ==
    <<"Jan", "Feb", "Mar", "Apr", "May", "Jun", "Jul", "Aug", "Sep", "Oct", "Nov", "Dec">>

\* df.set_index('date') and the year, month and dayofweek columns
index_and_features(f) ==
    [ok |-> TRUE,
     index |-> SeqMap(LAMBDA r : at(f, r, "date"), f.rows),
     cols |-> SelectSeq(f.cols, LAMBDA c : c # "date") \o <<"year", "month", "dayofweek">>,
     rows |-> SeqMap(LAMBDA r :
                 [j \in 1..(Len(r) - 1) |-> r[j + 1]]
                     \o <<Num(at(f, r, "date").y), Str(month_abbr[at(f, r, "date").m]),
                          Str(day_name(at(f, r, "date")))>>,
                 f.rows)]

\* the rows with a date, then the .dt accessor
localized(f) ==
    IF Cardinality(date_offsets(f)) > 1
    THEN Raise("AttributeError: Can only use .dt accessor with datetimelike values")
    ELSE index_and_features(
            set_col(dropna_subset(f, "date"), "date",
                    LAMBDA r : tz_localize_none(at(f, r, "date"))))

\* cleaned(df) of the heavy-metal page; the date column is the first one
cleaned_metal(f) ==
    localized(set_col(f, "date", LAMBDA r : to_datetime_dayfirst(at(f, r, "date"))))

\* the body of the try block for one file
load_metal(p) ==
    IF ~read_csv(p).ok THEN read_csv(p)
    ELSE IF missing_required(lower_columns(read_csv(p))) # {} THEN Raise("missing")
    ELSE cleaned_metal(select_required(lower_columns(read_csv(p))))

InitMetal ==
    /\ variant = "metal"
    /\ pc = "loop"
    /\ \E n \in 1..MaxFiles : \E ps \in [1..n -> MetalParams] :
          uploaded_files = [i \in 1..n |-> [name |-> MetalFileNames[i], p |-> ps[i]]]
    /\ idx = 1
    /\ dfs = <<>>
    /\ warnings = <<>>
    /\ exception = ""
    /\ dataframes = <<>>
    /\ file_names = <<>>
    /\ widget_keys = <<>>
    /\ kw_args = Unset
    /\ kruskal_df = Unset
    /\ IdleAqi /\ IdleClean /\ IdlePrep /\ IdleTabs /\ IdleApp

metal_unchanged ==
    UNCHANGED <<variant, uploaded_files, dfs, kw_args, aqi_vars, clean_vars,
                prep_vars, tab_inputs, tab_vars, app_vars>>

\* one pass of the loop body.  A file with missing columns gives a warning
\* and the loop continues; an exception gives st.error and st.stop().  The
\* name is appended before cleaned(df) and again after it.
LoadMetalFile ==
    /\ pc = "loop"
    /\ idx <= Len(uploaded_files)
    /\ \E f \in {uploaded_files[idx]} : \E d \in {load_metal(f.p)} :
          IF d.ok
          THEN /\ dataframes' = Append(dataframes, d)
               /\ file_names' = Append(Append(file_names, f.name), f.name)
               /\ idx' = idx + 1
               /\ UNCHANGED <<pc, warnings, exception>>
          ELSE IF d.err = "missing"
          THEN /\ warnings' = Append(warnings, f.name)
               /\ idx' = idx + 1
               /\ UNCHANGED <<pc, exception, dataframes, file_names>>
          ELSE /\ exception' = d.err
               /\ pc' = "stopped"
               /\ file_names' = IF read_csv(f.p).ok THEN Append(file_names, f.name)
                                ELSE file_names
               /\ UNCHANGED <<idx, warnings, dataframes>>
    /\ UNCHANGED <<widget_keys, kruskal_df>>
    /\ metal_unchanged

\* zip(dataframes, file_names)
zip_len == IF Len(dataframes) < Len(file_names) THEN Len(dataframes) ELSE Len(file_names)

\* the keys of one tab's widgets, one per pair of the zip
tab_keys(prefix) == [i \in 1..zip_len |-> prefix \o file_names[i]]

\* the first position of a sequence whose element occurred before it, or 0
first_repeat(keys) ==
    IF \E j \in 1..Len(keys) : \E i \in 1..(j - 1) : keys[i] = keys[j]
    THEN Min({j \in 1..Len(keys) : \E i \in 1..(j - 1) : keys[i] = keys[j]})
    ELSE 0

\* a tab whose loop body only draws: its widgets are registered one after the
\* other, and a key used before raises DuplicateWidgetID
draw_tab(prefix, next) ==
    IF first_repeat(tab_keys(prefix)) = 0
    THEN /\ widget_keys' = widget_keys \o tab_keys(prefix)
         /\ pc' = next
         /\ UNCHANGED exception
    ELSE /\ widget_keys' = widget_keys
                \o SubSeq(tab_keys(prefix), 1, first_repeat(tab_keys(prefix)) - 1)
         /\ pc' = "exception"
         /\ exception' = "DuplicateWidgetID"

\* a tab whose loop body raises in its first pass, after its widgets
raising_tab(prefixes, next, err) ==
    IF zip_len = 0
    THEN /\ pc' = next
         /\ UNCHANGED <<widget_keys, exception>>
    ELSE /\ widget_keys' = widget_keys \o [i \in 1..Len(prefixes) |-> tab_keys(prefixes[i])[1]]
         /\ pc' = "exception"
         /\ exception' = err

\* tab1: st.multiselect(..., key=f"metals_{name}") and the yearly plots
TrendsTab ==
    /\ pc = "loop"
    /\ idx > Len(uploaded_files)
    /\ draw_tab("metals_", "tab2")
    /\ UNCHANGED <<idx, warnings, dataframes, file_names, kruskal_df>>
    /\ metal_unchanged

\* tab2: st.multiselect(..., key=f"site_corr_{name}") and correlation_analysis
CorrelationTab ==
    /\ pc = "tab2"
    /\ draw_tab("site_corr_", "tab3")
    /\ UNCHANGED <<idx, warnings, dataframes, file_names, kruskal_df>>
    /\ metal_unchanged

\* tab3: plot_violin_plot(df, metal_sel) lacks the selected_sites argument
ViolinTab ==
    /\ pc = "tab3"
    /\ raising_tab(<<"metal2_">>, "tab4",
                   "TypeError: plot_violin_plot() missing 1 required positional argument")
    /\ UNCHANGED <<idx, warnings, dataframes, file_names, kruskal_df>>
    /\ metal_unchanged

\* the order sorted() gives the site names
site_rank(site) ==
    CASE site = "Accra" -> 1 [] site = "Kaneshie" -> 2 [] site = "Tema" -> 3 [] OTHER -> 4

\* df['site'].unique()
unique_sites(f) == {at(f, f.rows[j], "site").s : j \in 1..Len(f.rows)}

\* sorted(S) for a set of site names
RECURSIVE sorted_sites(_)
sorted_sites(S) ==
    IF S = {} THEN <<>>
    ELSE <<CHOOSE x \in S : \A y \in S : site_rank(x) <= site_rank(y)>>
            \o sorted_sites(S \ {CHOOSE x \in S : \A y \in S : site_rank(x) <= site_rank(y)})

\* df[df['site'].isin(sel)]
isin_site(f, sel) ==
    [f EXCEPT
       !.rows = SelectSeq(f.rows, LAMBDA r : \E i \in 1..Len(sel) : at(f, r, "site").s = sel[i]),
       !.index = [j \in 1..Cardinality({i \in 1..Len(f.rows) :
                        \E k \in 1..Len(sel) : at(f, f.rows[i], "site").s = sel[k]}) |->
                    f.index[CHOOSE i \in 1..Len(f.rows) :
                        /\ \E k \in 1..Len(sel) : at(f, f.rows[i], "site").s = sel[k]
                        /\ Cardinality({h \in 1..i :
                              \E k \in 1..Len(sel) : at(f, f.rows[h], "site").s = sel[k]}) = j]]]

\* [m for m in metal_columns if m in df.columns]
metals_in(f) == SelectSeq(metal_columns, LAMBDA m : has_col(f, m))

\* the first pass of "for metal in metals" up to stats.kruskal(*groups).
\* site_column is a column name (k = "name") or the list of selected sites
\* the tab passes (k = "list").  df[list] is a frame of the listed columns and
\* has no unique(); df[name].unique() feeds the groups, each of which reads
\* df[...][metal]; the module imports kruskal, not stats.
kruskal_first_metal(f, metal, site_column) ==
    IF site_column.k = "list"
    THEN IF \E i \in 1..Len(site_column.v) : ~has_col(f, site_column.v[i])
         THEN Raise("KeyError: not in index")
         ELSE Raise("AttributeError: 'DataFrame' object has no attribute 'unique'")
    ELSE IF ~has_col(f, site_column.v)
    THEN Raise("KeyError: site_column")
    ELSE IF f.rows # <<>> /\ ~has_col(f, metal)
    THEN Raise("KeyError: metal")
    ELSE Raise("NameError: name 'stats' is not defined")

\* kruskal_wallis_by_test(df, metals, site_column): pd.DataFrame(results) of no
\* results when there is no metal to loop over
kruskal_wallis_by_test(f, metals, site_column) ==
    IF metals = <<>> THEN Frame(<<>>, <<>>)
    ELSE kruskal_first_metal(f, metals[1], site_column)

\* the arguments tab4 passes for the i-th pair, every site selected
tab4_args(i) ==
    [df |-> isin_site(dataframes[i], sorted_sites(unique_sites(dataframes[i]))),
     metals |-> metals_in(dataframes[i]),
     site_column |-> [k |-> "list", v |-> sorted_sites(unique_sites(dataframes[i]))]]

tab4_call(i) ==
    kruskal_wallis_by_test(tab4_args(i).df, tab4_args(i).metals, tab4_args(i).site_column)

\* the pairs of tab4 whose pass raises at its widget or in the call
tab4_failing ==
    {j \in 1..zip_len :
        \/ \E i \in 1..(j - 1) : file_names[i] = file_names[j]
        \/ ~tab4_call(j).ok}

\* tab4: st.multiselect(..., key=f"site3_{name}"), kruskal_wallis_by_test
KruskalTab ==
    /\ pc = "tab4"
    /\ IF zip_len = 0
       THEN /\ pc' = "tab5"
            /\ UNCHANGED <<widget_keys, exception, kw_args, kruskal_df>>
       ELSE IF tab4_failing = {}
       THEN /\ pc' = "tab5"
            /\ widget_keys' = widget_keys \o tab_keys("site3_")
            /\ kw_args' = tab4_args(zip_len)
            /\ kruskal_df' = tab4_call(zip_len)
            /\ UNCHANGED exception
       ELSE \E j \in {Min(tab4_failing)} :
               /\ pc' = "exception"
               /\ IF \E i \in 1..(j - 1) : file_names[i] = file_names[j]
                  THEN /\ widget_keys' = widget_keys \o SubSeq(tab_keys("site3_"), 1, j - 1)
                       /\ exception' = "DuplicateWidgetID"
                       /\ kw_args' = IF j > 1 THEN tab4_args(j - 1) ELSE kw_args
                       /\ kruskal_df' = IF j > 1 THEN tab4_call(j - 1) ELSE kruskal_df
                  ELSE /\ widget_keys' = widget_keys \o SubSeq(tab_keys("site3_"), 1, j)
                       /\ exception' = tab4_call(j).err
                       /\ kw_args' = tab4_args(j)
                       /\ kruskal_df' = IF j > 1 THEN tab4_call(j - 1) ELSE kruskal_df
    /\ UNCHANGED <<idx, warnings, dataframes, file_names>>
    /\ UNCHANGED <<variant, uploaded_files, dfs, aqi_vars, clean_vars,
                   prep_vars, tab_inputs, tab_vars, app_vars>>

\* tab5: timeVariation(..., statistic=statistic) reads a name the module
\* never binds
TimeVariationTab ==
    /\ pc = "tab5"
    /\ raising_tab(<<"site5_", "metal5_">>, "done", "NameError: name 'statistic' is not defined")
    /\ UNCHANGED <<idx, warnings, dataframes, file_names, kruskal_df>>
    /\ metal_unchanged

NextMetal ==
    \/ LoadMetalFile
    \/ TrendsTab
    \/ CorrelationTab
    \/ ViolinTab
    \/ KruskalTab
    \/ TimeVariationTab

SpecMetal == InitMetal /\ [][NextMetal]_vars

-----------------------------------------------------------------------------
(* kruskal_wallis_by_test called on its own *)

KruskalMetals == {<<>>, <<"cd">>, <<"pb">>, <<"cd", "pb">>, <<"zn">>, metal_columns}

KruskalSelections == {sorted_sites(S) : S \in SUBSET {"Accra", "Kaneshie", "Tema"}}

\* the site column by name, a name the frame lacks, and the lists of selected
\* sites tab4 passes
KruskalSiteColumns ==
    {[k |-> "name", v |-> "site"], [k |-> "name", v |-> "station"]}
        \cup {[k |-> "list", v |-> sel] : sel \in KruskalSelections}

\* cleaned files, whole and restricted to a selection of sites
KruskalFrames ==
    {isin_site(load_metal([kind |-> "ok", site |-> s]), sel) :
        s \in MetalSites, sel \in KruskalSelections}

InitKruskal ==
    /\ variant = "metal"
    /\ pc = "call"
    /\ kw_args \in [df : KruskalFrames, metals : KruskalMetals,
                    site_column : KruskalSiteColumns]
    /\ kruskal_df = Unset
    /\ dataframes = <<>> /\ file_names = <<>> /\ widget_keys = <<>>
    /\ IdleAqi /\ IdleClean /\ IdleUpload /\ IdlePrep /\ IdleTabs /\ IdleApp

KruskalWallisByTest ==
    /\ pc = "call"
    /\ kruskal_df' = kruskal_wallis_by_test(kw_args.df, kw_args.metals, kw_args.site_column)
    /\ pc' = "returned"
    /\ UNCHANGED <<variant, kw_args, dataframes, file_names, widget_keys, aqi_vars,
                   clean_vars, upload_vars, prep_vars, tab_inputs, tab_vars, app_vars>>

NextKruskal == KruskalWallisByTest

SpecKruskal == InitKruskal /\ [][NextKruskal]_vars

-----------------------------------------------------------------------------
(* Claims about the heavy-metal page *)

\* the positions of the uploaded files the loop has passed whose try block
\* ran to its end, in upload order
C26_Loaded ==
    SortedSeq({i \in 1..(idx - 1) : load_metal(uploaded_files[i].p).ok})

\* C26: after the upload loop of the heavy-metal page, dataframes and
\* file_names have the same length, the i-th name is the name of the file the
\* i-th dataframe was read from, and no two widgets of the tabs get the same
\* key.
C26_NamesMatchFrames ==
    (pc # "loop" \/ idx > Len(uploaded_files)) =>
        /\ Len(dataframes) = Len(file_names)
        /\ \A i \in 1..Len(dataframes) :
              /\ dataframes[i] = load_metal(uploaded_files[C26_Loaded[i]].p)
              /\ i <= Len(file_names) => file_names[i] = uploaded_files[C26_Loaded[i]].name
        /\ exception # "DuplicateWidgetID"

\* the uploaded files whose read and cleaning raise no error and which have
\* every required column
C22_Loadable ==
    SortedSeq({i \in 1..Len(uploaded_files) : load_metal(uploaded_files[i].p).ok})

\* C22: when reading or cleaning one uploaded file raises an error, the error
\* is reported and only that file is skipped: once the loop is over, every
\* other file of the batch is in dataframes and the page goes on to the tabs.
C22_OthersStillLoaded ==
    pc # "loop" =>
        /\ C22_Loadable # <<>> => pc # "stopped"
        /\ dataframes = [i \in 1..Len(C22_Loadable) |->
                            load_metal(uploaded_files[C22_Loadable[i]].p)]

\* C21: for every metal passed in, kruskal_wallis_by_test returns one result
\* row with df equal to the number of distinct sites of the data minus 1 and,
\* per site, a confidence interval whose lower bound is at most the upper.
C21_OneRowPerMetal ==
    kruskal_df # Unset =>
        /\ kruskal_df.ok
        /\ Len(kruskal_df.rows) = Len(kw_args.metals)
        /\ \A i \in 1..Len(kruskal_df.rows) :
              /\ at(kruskal_df, kruskal_df.rows[i], "df")
                    = Num(Cardinality(unique_sites(kw_args.df)) - 1)
              /\ \A ci \in at(kruskal_df, kruskal_df.rows[i], "Confidence Intervals") :
                    ci.lower <= ci.upper


====
